---- MODULE Spec2Model ----
(***************************************************************************)
(* Model of the MCP C++ SDK (pooriayousefi/cpp-sdk): the in-memory         *)
(* transport pair (include/mcp/transport/transport.hpp), the MCP Server    *)
(* (include/mcp/server.hpp), the streaming adapter                         *)
(* (include/mcp/server_streaming.hpp) and the MCP Client                   *)
(* (include/mcp/client.hpp).  The JSON-RPC endpoint both sessions are      *)
(* built on (include/mcp/jsonrpc/jsonrpc.hpp) is not part of the sources   *)
(* at hand; its dispatch and correlation are modelled from spec.md         *)
(* sections 4.5 and 4.6 and from tests/test_jsonrpc.cpp.                   *)
(*                                                                         *)
(* Two transports, "c" (client side) and "s" (server side), are connected  *)
(* as peers by create_in_memory_pair.  Each has a worker thread that pops  *)
(* its queue and calls the on_message sink.                                *)
(***************************************************************************)
EXTENDS Integers, Sequences, FiniteSets, TLC

VARIABLES
    running,        \* InMemoryTransport::running_, per side
    queue,          \* InMemoryTransport::message_queue_, per side
    wpc,            \* position of the process_thread_ worker, per side
    wcur,           \* the message the worker popped and is delivering
    ctl,            \* position of the thread calling close(), per side
    attached,       \* what the on_message/on_close sinks of a side belong to
    srvInit,        \* Server::initialized_
    srvCaps,        \* Server::client_capabilities_ (0 = null)
    ctx,            \* request-scoped context of the running inbound handler
    collected,      \* results.size() inside the streaming adapter
    handled,        \* observation: the last inbound message the Server handled
    dispatched,     \* observation: requests accepted into dispatch, per id
    responded,      \* observation: responses the server endpoint emitted, per id
    cancelSent,     \* observation: a $/cancelRequest for the running stream was accepted by the transport
    rawSent,        \* number of raw messages the test peer has sent
    cliInit,        \* Client::initialized_
    nextId,         \* endpoint outbound_next_id of the Client
    outstanding,    \* endpoint outstanding table of the Client: set of ids
    reqMethod,      \* method of each outbound request of the Client
    succFired,      \* number of times the success sink of a request fired
    errFired,       \* number of times the error sink of a request fired
    wire,           \* methods the Client handed to its transport, in order
    lastCall,       \* observation: the last wrapper call of the Client
    accepted,       \* observation: ids of the Client's requests its transport accepted
    unmatched,      \* observation: responses the Client's endpoint dropped as unmatched
    closedPending,  \* observation: sent ids still outstanding when Client::close() returned
    thr,            \* transport tests: position of each application thread inside close()
    expired,        \* transport tests: sides whose transport object has been destroyed
    delivered,      \* transport tests: messages the test's on_message sink got, per side
    acceptedLog,    \* transport tests: messages send() accepted, per destination side
    started,        \* transport tests: worker threads start() created, per side
    closeFired,     \* transport tests: invocations of the test's on_close sink, per side
    errorCalls,     \* transport tests: invocations of the test's on_error sink, per side
    sendCalls,      \* transport tests: number of send() calls made
    startAgain,     \* transport tests: sides whose start() was called while running
    par,            \* AsyncClient::execute_parallel_async: position and futures
    cancelIds,      \* observation: ids named by the $/cancelRequest another thread delivered
    tools_,         \* Server::tools_: the definition registered under each name (0 = none)
    tool_handlers_, \* Server::tool_handlers_: the handler registered under each name (0 = none)
    registering,    \* position of the thread calling register_tool, and its calls so far
    stdin,          \* StdioTransport: lines written to std::cin and not yet read
    stdio,          \* StdioTransport: running_, the reader thread, the closing thread, the sinks' record
    adapter,        \* the streaming adapter's lambda: its generator, its loop and what it collects
    co              \* Task and Generator objects and the coroutine frames they hold

vars == <<running, queue, wpc, wcur, ctl, attached, srvInit, srvCaps, ctx,
          collected, handled, dispatched, responded, cancelSent, rawSent,
          cliInit, nextId, outstanding, reqMethod, succFired, errFired, wire,
          lastCall, accepted, unmatched, closedPending, thr, expired,
          delivered, acceptedLog, started, closeFired, errorCalls, sendCalls,
          startAgain, par, cancelIds, tools_, tool_handlers_, registering,
          stdin, stdio, adapter, co>>

transportVars == <<running, queue, wpc, wcur, ctl>>
serverVars == <<srvInit, srvCaps, ctx, collected, handled, dispatched,
                responded, cancelSent>>
clientVars == <<cliInit, nextId, outstanding, reqMethod, succFired, errFired,
                wire, lastCall, accepted, unmatched, closedPending>>
registryVars == <<tools_, tool_handlers_, registering>>
stdioVars == <<stdin, stdio>>
coVars == <<adapter, co>>
testVars == <<thr, expired, delivered, acceptedLog, started, closeFired,
              errorCalls, sendCalls, startAgain, cancelIds>>
notStdio == <<transportVars, serverVars, clientVars, testVars, registryVars,
               coVars, attached, rawSent, par>>
notCo == <<transportVars, serverVars, clientVars, testVars, registryVars,
           stdioVars, attached, rawSent, par>>

----------------------------------------------------------------------------
(* Bounds of the model *)

\* requests the Client may send (ids 1..MaxCliReq)
MaxCliReq == 2
\* register_tool calls made after start()
MaxRegs == 2
\* lines the peer process writes to the standard input of a StdioTransport
MaxLines == 4
\* raw messages the test peer may send to the Server
MaxRaw == 2
\* raw messages of the streaming scenarios
MaxStreamMsgs == 3
\* items the streaming tool's generator yields
StreamLen == 2
\* raw responses the peer of the Client may send
MaxPeerResp == 2
\* raw responses the peer may send in the scenarios of the six wrappers
MaxHandshakeResp == 1
\* send() calls of the transport tests
MaxSends == 3
\* worker threads a transport test may start on one transport
MaxStarts == 1
\* start() calls with effect on the transport that is closed and started again
MaxCycles == 2
\* longest stream a streaming handler's generator yields
MaxItems == 3
\* coroutine frames created in the ownership scenarios
MaxFrames == 2
\* longest batch the raw peer sends
MaxBatch == 3
\* number of tool calls handed to execute_parallel_async
ParCalls == 2

Sides == {"c", "s"}
Peer(side) == IF side = "c" THEN "s" ELSE "c"

\* ids of the Client's requests, then the ids the raw peer uses
\* the last id of an application that initializes and then fans out ParCalls calls
MaxParId == ParCalls + 1
CliIds == 1..(IF MaxParId > MaxCliReq THEN MaxParId ELSE MaxCliReq)
RawIds == (MaxCliReq + 1)..(MaxCliReq + MaxRaw + MaxStreamMsgs)
Ids == CliIds \cup RawIds

----------------------------------------------------------------------------
(* JSON-RPC error codes *)

invalid_request == -32600
method_not_found == -32601
invalid_params == -32602
internal_error == -32603
request_cancelled == -32800
\* an application-defined code carried by an rpc_exception
custom_error == -32000

----------------------------------------------------------------------------
(* Message codec.  A message is a record; id 0 stands for "no id", name for *)
(* params.name / params.uri, arg for params.capabilities (initialize) or    *)
(* params.id ($/cancelRequest), n for the number of content items.          *)

NoMsg == [t |-> "none", id |-> 0, m |-> "", name |-> "", arg |-> 0, code |-> 0, n |-> 0]

make_request(id, method, name, arg) ==
    [t |-> "request", id |-> id, m |-> method, name |-> name, arg |-> arg, code |-> 0, n |-> 0]

make_notification(method, arg) ==
    [t |-> "notification", id |-> 0, m |-> method, name |-> "", arg |-> arg, code |-> 0, n |-> 0]

make_result(id, n) ==
    [t |-> "result", id |-> id, m |-> "", name |-> "", arg |-> 0, code |-> 0, n |-> n]

make_error(id, code) ==
    [t |-> "error", id |-> id, m |-> "", name |-> "", arg |-> 0, code |-> code, n |-> 0]

is_request(j) == j.t = "request"
is_notification(j) == j.t = "notification"
is_response(j) == j.t \in {"result", "error"}

----------------------------------------------------------------------------
(* InMemoryTransport *)

\* variant: send() pushes at the front of the peer's queue
SendQueue_front(q, run, from, msg) ==
    IF run[from] THEN [q EXCEPT ![Peer(from)] = <<msg>> \o @] ELSE q

\* send(): refused when the sender is not running, else pushed on the peer's queue
SendQueue(q, run, from, msg) ==
    IF run[from] THEN [q EXCEPT ![Peer(from)] = Append(@, msg)] ELSE q

\* variant: start() without the running_ check starts a worker every time
Start_again(side) ==
    /\ ctl[side] = "idle"
    /\ running' = [running EXCEPT ![side] = TRUE]
    /\ wpc' = [wpc EXCEPT ![side] = "wait"]
    /\ UNCHANGED <<queue, wcur, ctl>>

\* start(): no-op when running, else sets running_ and starts the worker
Start(side) ==
    /\ ctl[side] = "idle"
    /\ IF running[side]
         THEN UNCHANGED <<running, wpc>>
         ELSE /\ wpc[side] = "none"
              /\ running' = [running EXCEPT ![side] = TRUE]
              /\ wpc' = [wpc EXCEPT ![side] = "wait"]
    /\ UNCHANGED <<queue, wcur, ctl>>

\* variant: the worker reads front() and does not pop()
WorkerPop_keep(side) ==
    /\ wpc[side] = "wait"
    /\ running[side]
    /\ queue[side] # <<>>
    /\ wcur' = [wcur EXCEPT ![side] = Head(queue[side])]
    /\ wpc' = [wpc EXCEPT ![side] = "deliver"]
    /\ UNCHANGED <<running, queue, ctl>>

\* variant: the worker takes the newest message of the queue
WorkerPop_last(side) ==
    /\ wpc[side] = "wait"
    /\ running[side]
    /\ queue[side] # <<>>
    /\ wcur' = [wcur EXCEPT ![side] = queue[side][Len(queue[side])]]
    /\ queue' = [queue EXCEPT ![side] = SubSeq(@, 1, Len(@) - 1)]
    /\ wpc' = [wpc EXCEPT ![side] = "deliver"]
    /\ UNCHANGED <<running, ctl>>

\* worker loop: wait until the queue is non-empty or running_ is false; pop
WorkerPop(side) ==
    /\ wpc[side] = "wait"
    /\ running[side]
    /\ queue[side] # <<>>
    /\ wcur' = [wcur EXCEPT ![side] = Head(queue[side])]
    /\ queue' = [queue EXCEPT ![side] = Tail(@)]
    /\ wpc' = [wpc EXCEPT ![side] = "deliver"]
    /\ UNCHANGED <<running, ctl>>

\* worker loop: running_ is false, the thread function returns
WorkerExit(side) ==
    /\ wpc[side] = "wait"
    /\ ~running[side]
    /\ wpc' = [wpc EXCEPT ![side] = "exited"]
    /\ UNCHANGED <<running, queue, wcur, ctl>>

\* close(), first half: clears running_, notifies, starts joining the worker
CloseBegin(side) ==
    /\ ctl[side] = "idle"
    /\ running[side]
    /\ running' = [running EXCEPT ![side] = FALSE]
    /\ ctl' = [ctl EXCEPT ![side] = "joining"]
    /\ UNCHANGED <<queue, wpc, wcur>>

\* close(), second half: join returns once the worker has exited; emit_close follows
CloseJoin(side) ==
    /\ ctl[side] = "joining"
    /\ wpc[side] = "exited"
    /\ wpc' = [wpc EXCEPT ![side] = "none"]
    /\ ctl' = [ctl EXCEPT ![side] = "idle"]
    /\ UNCHANGED <<running, queue, wcur>>

----------------------------------------------------------------------------
(* StdioTransport: a reader thread that takes newline-delimited JSON from    *)
(* std::cin and hands each message to the on_message sink.                   *)

\* the lines the peer process may write: an empty line, a blank one, a
\* truncated object, and two objects
Lines == {"", " ", "{\"id\":1", "{\"id\":1}", "{\"id\":2}"}

\* json::parse(line) returns instead of throwing json::exception
IsJson(line) == line \in {"{\"id\":1}", "{\"id\":2}"}

\* json::parse(line) of a line that is JSON
parse(line) == IF line = "{\"id\":1}" THEN [id |-> 1] ELSE [id |-> 2]

\* variant: no line is skipped
IsSkipped_none(line) == FALSE

\* if (line.empty()) continue;
IsSkipped(line) == line = ""

\* StdioTransport(): running_(false); no reader thread, sinks that record
StdioConstructed ==
    [running_ |-> FALSE, pc |-> "none", line |-> "", closer |-> "idle",
     written |-> 0, eof |-> FALSE, consumed |-> <<>>,
     delivered |-> <<>>, errors |-> 0, closes |-> 0]

\* the peer process writes a line
StdinWrite ==
    /\ ~stdio.eof
    /\ stdio.written < MaxLines
    /\ \E line \in Lines : stdin' = Append(stdin, line)
    /\ stdio' = [stdio EXCEPT !.written = @ + 1]
    /\ UNCHANGED notStdio

\* the peer process closes its end: end of file after the lines written
StdinEof ==
    /\ ~stdio.eof
    /\ stdio' = [stdio EXCEPT !.eof = TRUE]
    /\ UNCHANGED stdin
    /\ UNCHANGED notStdio

\* start(): sets running_ and creates the reader thread
StdioStart ==
    /\ stdio.pc = "none"
    /\ ~stdio.running_
    /\ stdio' = [stdio EXCEPT !.running_ = TRUE, !.pc = "check"]
    /\ UNCHANGED stdin
    /\ UNCHANGED notStdio

\* reader: the running_ half of the while condition; when it is false the
\* loop is left, running_ is cleared and emit_close() runs
StdioCheck ==
    /\ stdio.pc = "check"
    /\ stdio' = IF stdio.running_
                  THEN [stdio EXCEPT !.pc = "getline"]
                  ELSE [stdio EXCEPT !.pc = "exited", !.closes = @ + 1]
    /\ UNCHANGED stdin
    /\ UNCHANGED notStdio

\* reader: std::getline returns a line, or fails at end of file, after
\* which the loop is left, running_ is cleared and emit_close() runs
StdioGetline ==
    /\ stdio.pc = "getline"
    /\ IF stdin # <<>>
         THEN /\ stdin' = Tail(stdin)
              /\ stdio' = [stdio EXCEPT !.pc = "line", !.line = Head(stdin),
                                        !.consumed = Append(@, Head(stdin))]
         ELSE /\ stdio.eof
              /\ stdio' = [stdio EXCEPT !.pc = "exited", !.running_ = FALSE,
                                        !.closes = @ + 1]
              /\ UNCHANGED stdin
    /\ UNCHANGED notStdio

\* reader: the body of the loop for the line read
StdioLine ==
    /\ stdio.pc = "line"
    /\ stdio' =
         IF IsSkipped(stdio.line)
           THEN [stdio EXCEPT !.pc = "check"]
           ELSE IF IsJson(stdio.line)
             THEN [stdio EXCEPT !.pc = "check",
                                !.delivered = Append(@, parse(stdio.line))]
             ELSE [stdio EXCEPT !.pc = "check", !.errors = @ + 1]
    /\ UNCHANGED stdin
    /\ UNCHANGED notStdio

\* close(): returns at once when running_ is false, else clears it and joins
StdioClose ==
    /\ stdio.closer = "idle"
    /\ stdio.running_
    /\ stdio' = [stdio EXCEPT !.running_ = FALSE, !.closer = "joining"]
    /\ UNCHANGED stdin
    /\ UNCHANGED notStdio

\* close() or the destructor, which calls close(), when running_ is false:
\* returns at once, without a join; a reader thread that was started and has
\* left its loop at end of file stays unjoined
StdioCloseStopped ==
    /\ stdio.closer = "idle"
    /\ ~stdio.running_
    /\ stdio.pc # "none"
    /\ stdio' = [stdio EXCEPT !.closer = "unjoined"]
    /\ UNCHANGED stdin
    /\ UNCHANGED notStdio

\* close(): read_thread_.join() returns once the reader has left its lambda
StdioJoin ==
    /\ stdio.closer = "joining"
    /\ stdio.pc = "exited"
    /\ stdio' = [stdio EXCEPT !.closer = "closed"]
    /\ UNCHANGED stdin
    /\ UNCHANGED notStdio

NextStdio ==
    \/ StdinWrite
    \/ StdinEof
    \/ StdioStart
    \/ StdioCheck
    \/ StdioGetline
    \/ StdioLine
    \/ StdioClose
    \/ StdioCloseStopped
    \/ StdioJoin

----------------------------------------------------------------------------
(* Generator<T> and the streaming adapter: the lambda that                   *)
(* register_streaming_tool and register_streaming_resource hand to the       *)
(* Server runs a range-for over the handler's generator.                     *)

\* the content chunks a handler may yield
Chunks == {"x", "y"}

RECURSIVE SeqsUpTo(_, _)
\* the sequences over S of length at most n
SeqsUpTo(S, n) ==
    IF n = 0 THEN {<<>>}
    ELSE LET shorter == SeqsUpTo(S, n - 1)
         IN shorter \cup {Append(q, x) : q \in {r \in shorter : Len(r) = n - 1}, x \in S}

\* the streams a handler's generator may yield
Streams == SeqsUpTo(Chunks, MaxItems)

\* the adapter's lambda has not been called
NotCalled ==
    [pc |-> "idle", items |-> <<>>, pos |-> 0, done |-> FALSE,
     current_value |-> "", results |-> <<>>, hasCtx |-> FALSE,
     cancelled |-> FALSE, progress |-> 0, pulledAtCancel |-> 0]

\* handle.resume(): the coroutine runs to its next co_yield, where
\* yield_value stores the value in the promise, or to its end
resume(a) ==
    IF a.pos < Len(a.items)
      THEN [a EXCEPT !.pos = @ + 1, !.current_value = a.items[a.pos + 1]]
      ELSE [a EXCEPT !.done = TRUE]

\* the Server calls the lambda: handler(args) creates the generator, which
\* is suspended at its start (initial_suspend is suspend_always)
AdapterCall ==
    /\ adapter.pc = "idle"
    /\ \E items \in Streams, c \in BOOLEAN :
         adapter' = [NotCalled EXCEPT !.pc = "begin", !.items = items, !.hasCtx = c]
    /\ UNCHANGED co
    /\ UNCHANGED notCo

\* range-for: begin() resumes the coroutine and returns the iterator
AdapterBegin ==
    /\ adapter.pc = "begin"
    /\ adapter' = [resume(adapter) EXCEPT !.pc = "test"]
    /\ UNCHANGED co
    /\ UNCHANGED notCo

\* range-for: it != end() is !handle.done(); when done the lambda returns
\* results
AdapterTest ==
    /\ adapter.pc = "test"
    /\ adapter' = [adapter EXCEPT !.pc = IF adapter.done THEN "returned" ELSE "body"]
    /\ UNCHANGED co
    /\ UNCHANGED notCo

\* loop body: content = *it is the promise's current_value;
\* results.push_back(content)
AdapterPush ==
    /\ adapter.pc = "body"
    /\ adapter' = [adapter EXCEPT !.results = Append(@, adapter.current_value),
                                  !.pc = "report"]
    /\ UNCHANGED co
    /\ UNCHANGED notCo

\* loop body: if (auto ctx = current_context()) report_progress(...)
AdapterReport ==
    /\ adapter.pc = "report"
    /\ adapter' = [adapter EXCEPT !.progress = IF adapter.hasCtx THEN @ + 1 ELSE @,
                                  !.pc = "check"]
    /\ UNCHANGED co
    /\ UNCHANGED notCo

\* variant: the loop does not look at the cancelled flag
AdapterCheck_never ==
    /\ adapter.pc = "check"
    /\ adapter' = [adapter EXCEPT !.pc = "next"]
    /\ UNCHANGED co
    /\ UNCHANGED notCo

\* loop body: if (is_canceled()) break; after the break the lambda returns
\* results
AdapterCheck ==
    /\ adapter.pc = "check"
    /\ adapter' = [adapter EXCEPT !.pc = IF adapter.cancelled THEN "returned" ELSE "next"]
    /\ UNCHANGED co
    /\ UNCHANGED notCo

\* range-for: ++it resumes the coroutine
AdapterNext ==
    /\ adapter.pc = "next"
    /\ adapter' = [resume(adapter) EXCEPT !.pc = "test"]
    /\ UNCHANGED co
    /\ UNCHANGED notCo

\* the cancelled flag of the request's context is set while the lambda runs;
\* without a context is_canceled() stays false
AdapterCancel ==
    /\ adapter.pc \notin {"idle", "returned"}
    /\ adapter.hasCtx
    /\ ~adapter.cancelled
    /\ adapter' = [adapter EXCEPT !.cancelled = TRUE, !.pulledAtCancel = adapter.pos]
    /\ UNCHANGED co
    /\ UNCHANGED notCo

\* the Server has sent the response; the next request calls the lambda again
AdapterDone ==
    /\ adapter.pc = "returned"
    /\ adapter' = NotCalled
    /\ UNCHANGED co
    /\ UNCHANGED notCo

NextAdapter ==
    \/ AdapterCall
    \/ AdapterBegin
    \/ AdapterTest
    \/ AdapterPush
    \/ AdapterReport
    \/ AdapterCheck
    \/ AdapterNext
    \/ AdapterCancel
    \/ AdapterDone

----------------------------------------------------------------------------
(* Task<T> and Generator<T> as owners of a coroutine frame: each object      *)
(* holds a std::coroutine_handle and its destructor destroys the frame the  *)
(* handle names.                                                            *)

Objects == {"a", "b", "c"}
Kinds == {"Task", "Generator"}

\* storage in which no object has been constructed
NoObject == [life |-> "none", kind |-> "", handle |-> 0]

\* an object whose destructor has run
Destroyed == [life |-> "dead", kind |-> "", handle |-> 0]

\* no coroutine has been called: no frame exists (frame[f] counts the
\* handle.destroy() calls made on frame f)
NoCoroutines ==
    [obj |-> [o \in Objects |-> NoObject],
     frame |-> [f \in 1..MaxFrames |-> 0],
     made |-> 0,
     crashed |-> FALSE]

\* the handle a move constructor leaves in its source: Generator(Generator&&)
\* sets other.handle = nullptr, Task(Task&&) has an empty body
MovedFrom(src) ==
    IF src.kind = "Generator" THEN 0 ELSE src.handle

\* a coroutine is called: its frame is allocated and get_return_object
\* constructs the object that holds its handle
CoCreate ==
    /\ ~co.crashed
    /\ co.made < MaxFrames
    /\ \E o \in Objects, k \in Kinds :
         /\ co.obj[o].life = "none"
         /\ co' = [co EXCEPT !.made = @ + 1,
                             !.obj[o] = [life |-> "alive", kind |-> k,
                                         handle |-> co.made + 1]]
    /\ UNCHANGED adapter
    /\ UNCHANGED notCo

\* T dst{std::move(src)}: the move constructor
CoMoveConstruct ==
    /\ ~co.crashed
    /\ \E dst, src \in Objects :
         /\ co.obj[dst].life = "none"
         /\ co.obj[src].life = "alive"
         /\ co' = [co EXCEPT !.obj[dst] = co.obj[src],
                             !.obj[src].handle = MovedFrom(co.obj[src])]
    /\ UNCHANGED adapter
    /\ UNCHANGED notCo

\* the destructor: if (handle) handle.destroy().  destroy() on a frame that
\* was destroyed before is undefined: the program may crash or go on
CoDestroy ==
    /\ ~co.crashed
    /\ \E o \in Objects :
         /\ co.obj[o].life = "alive"
         /\ LET h == co.obj[o].handle
            IN IF h = 0
                 THEN co' = [co EXCEPT !.obj[o] = Destroyed]
                 ELSE \E crash \in (IF co.frame[h] = 0 THEN {FALSE} ELSE BOOLEAN) :
                        co' = [co EXCEPT !.obj[o] = Destroyed,
                                         !.frame[h] = @ + 1,
                                         !.crashed = crash]
    /\ UNCHANGED adapter
    /\ UNCHANGED notCo

NextFrames ==
    \/ CoCreate
    \/ CoMoveConstruct
    \/ CoDestroy

----------------------------------------------------------------------------
(* MCP Server: registries as set up before start() *)

\* names a tool is registered under: an eager tool, a tool whose handler throws
\* std::runtime_error, a tool whose handler throws rpc_exception, a streaming
\* tool, and a tool that is registered only after start()
ToolNames == {"echo", "boom", "deny", "stream", "fresh"}
\* the registrations made before start(), each the first of its name
RegisteredAtStart ==
    [n \in ToolNames |-> IF n \in {"echo", "boom", "deny", "stream"} THEN 1 ELSE 0]
\* the keys of tool_handlers_
tool_handlers == {n \in ToolNames : tool_handlers_[n] # 0}
\* the keys of tools_
tools == {n \in ToolNames : tools_[n] # 0}
\* prompt_handlers_
prompt_handlers == {"greet"}
\* resource_readers_
resource_readers == {"file:///a"}

\* the tool registered through StreamingServer::register_streaming_tool
IsStreamingTool(name) == name = "stream"
\* a registered handler that throws std::runtime_error
HandlerThrows(name) == name = "boom"
\* a registered handler that throws rpc_exception(error{custom_error, ...})
HandlerRaises(name) == name = "deny"
\* rpc_exception is one of the failures a catch of std::exception takes
rpc_exception_is_std_exception == TRUE

\* forms of "params" in a call request: the name field of a message holds the
\* "name" (or "uri") member, NoName when params is an object without that
\* member, NoParams when the request has no params at all
NoName == "<no name>"
NoParams == "<no params>"
\* what the dispatcher hands a handler as params when the request has none:
\* an empty object
DefaultParams(p) == IF p.name = NoParams THEN [p EXCEPT !.name = NoName, !.arg = 0] ELSE p
\* params.value("name", "") and params.value("uri", "")
NameOf(p) == IF p.name = NoName THEN "" ELSE p.name
\* params.value("arguments", json::object()): arg 0 is a params without an
\* "arguments" member, any other arg is the object {"msg": "hello"}
ArgumentsOf(p) == IF p.arg = 0 THEN "{}" ELSE "{msg:hello}"
\* number of items an eager handler returns
HandlerItems(name) == 1

\* outcome of a handler: code 0 is a returned value with n items; ran names the
\* registered user handler that was invoked ("" = none); init and caps are the
\* Server fields after the handler; stream says the streaming adapter was entered
\* args is what the user handler was called with ("" when none was called)
Returned(n, ran, init, caps) ==
    [code |-> 0, n |-> n, ran |-> ran, init |-> init, caps |-> caps, stream |-> FALSE,
     args |-> ""]
Thrown(code, ran, init, caps) ==
    [code |-> code, n |-> 0, ran |-> ran, init |-> init, caps |-> caps, stream |-> FALSE,
     args |-> ""]
Streaming(ran, init, caps) ==
    [code |-> 0, n |-> 0, ran |-> ran, init |-> init, caps |-> caps, stream |-> TRUE,
     args |-> ""]

\* variant: "initialize" without the already-initialized refusal
Handle_initialize_again(p, init, caps) ==
    Returned(0, "", TRUE, IF p.arg # 0 THEN p.arg ELSE caps)

\* variant: the refusal of a second "initialize" also resets initialized_
Handle_initialize_reset(p, init, caps) ==
    IF init
      THEN Thrown(invalid_request, "", FALSE, caps)
      ELSE Returned(0, "", TRUE, IF p.arg # 0 THEN p.arg ELSE caps)

\* "initialize"
Handle_initialize(p, init, caps) ==
    IF init
      THEN Thrown(invalid_request, "", init, caps)
      ELSE Returned(0, "", TRUE, IF p.arg # 0 THEN p.arg ELSE caps)

\* "tools/list"
Handle_tools_list(p, init, caps) ==
    IF ~init
      THEN Thrown(invalid_request, "", init, caps)
      ELSE Returned(Cardinality(tools), "", init, caps)

\* the catch (const std::exception&) of a call method, given the code of an
\* rpc_exception thrown inside its try block
CaughtAs(code) == IF rpc_exception_is_std_exception THEN internal_error ELSE code

\* invoking a registered handler with args inside the try block of a call
\* method: whatever the catch clause takes is thrown again as internal_error
Invoke(name, args, init, caps) ==
    [(IF HandlerThrows(name) THEN Thrown(internal_error, name, init, caps)
      ELSE IF HandlerRaises(name) THEN Thrown(CaughtAs(custom_error), name, init, caps)
      ELSE Returned(HandlerItems(name), name, init, caps))
     EXCEPT !.args = args]

\* variant: "tools/call" without the empty-name refusal
Handle_tools_call_unnamed(p, init, caps) ==
    IF ~init THEN Thrown(invalid_request, "", init, caps)
    ELSE IF NameOf(p) \notin tool_handlers THEN Thrown(method_not_found, "", init, caps)
    ELSE IF IsStreamingTool(NameOf(p))
      THEN [Streaming(NameOf(p), init, caps) EXCEPT !.args = ArgumentsOf(p)]
    ELSE Invoke(NameOf(p), ArgumentsOf(p), init, caps)

\* variant: "tools/call" that always calls the handler with an empty object
Handle_tools_call_noargs(p, init, caps) ==
    IF ~init THEN Thrown(invalid_request, "", init, caps)
    ELSE IF NameOf(p) = "" THEN Thrown(invalid_params, "", init, caps)
    ELSE IF NameOf(p) \notin tool_handlers THEN Thrown(method_not_found, "", init, caps)
    ELSE IF IsStreamingTool(NameOf(p))
      THEN [Streaming(NameOf(p), init, caps) EXCEPT !.args = "{}"]
    ELSE Invoke(NameOf(p), "{}", init, caps)

\* "tools/call"
Handle_tools_call(p, init, caps) ==
    IF ~init THEN Thrown(invalid_request, "", init, caps)
    ELSE IF NameOf(p) = "" THEN Thrown(invalid_params, "", init, caps)
    ELSE IF NameOf(p) \notin tool_handlers THEN Thrown(method_not_found, "", init, caps)
    ELSE IF IsStreamingTool(NameOf(p))
      THEN [Streaming(NameOf(p), init, caps) EXCEPT !.args = ArgumentsOf(p)]
    ELSE Invoke(NameOf(p), ArgumentsOf(p), init, caps)

\* "prompts/list"
Handle_prompts_list(p, init, caps) ==
    IF ~init
      THEN Thrown(invalid_request, "", init, caps)
      ELSE Returned(Cardinality(prompt_handlers), "", init, caps)

\* "prompts/get"
Handle_prompts_get(p, init, caps) ==
    IF ~init THEN Thrown(invalid_request, "", init, caps)
    ELSE IF NameOf(p) = "" THEN Thrown(invalid_params, "", init, caps)
    ELSE IF NameOf(p) \notin prompt_handlers THEN Thrown(method_not_found, "", init, caps)
    ELSE Invoke(NameOf(p), ArgumentsOf(p), init, caps)

\* "resources/list"
Handle_resources_list(p, init, caps) ==
    IF ~init
      THEN Thrown(invalid_request, "", init, caps)
      ELSE Returned(Cardinality(resource_readers), "", init, caps)

\* variant: "resources/read" without the not-initialized gate
Handle_resources_read_ungated(p, init, caps) ==
    IF NameOf(p) = "" THEN Thrown(invalid_params, "", init, caps)
    ELSE IF NameOf(p) \notin resource_readers THEN Thrown(method_not_found, "", init, caps)
    ELSE Invoke(NameOf(p), NameOf(p), init, caps)

\* "resources/read"
Handle_resources_read(p, init, caps) ==
    IF ~init THEN Thrown(invalid_request, "", init, caps)
    ELSE IF NameOf(p) = "" THEN Thrown(invalid_params, "", init, caps)
    ELSE IF NameOf(p) \notin resource_readers THEN Thrown(method_not_found, "", init, caps)
    ELSE Invoke(NameOf(p), NameOf(p), init, caps)

\* the six MCP methods behind the not-initialized gate
GatedMethods == {"tools/list", "tools/call", "prompts/list", "prompts/get",
                 "resources/list", "resources/read"}

\* methods the Server registers on its endpoint
ServerMethods == GatedMethods \cup {"initialize"}

\* dispatcher lookup: the handler registered for a method
RunHandler(p, init, caps) ==
    CASE p.m = "initialize"     -> Handle_initialize(p, init, caps)
      [] p.m = "tools/list"     -> Handle_tools_list(p, init, caps)
      [] p.m = "tools/call"     -> Handle_tools_call(p, init, caps)
      [] p.m = "prompts/list"   -> Handle_prompts_list(p, init, caps)
      [] p.m = "prompts/get"    -> Handle_prompts_get(p, init, caps)
      [] p.m = "resources/list" -> Handle_resources_list(p, init, caps)
      [] p.m = "resources/read" -> Handle_resources_read(p, init, caps)

\* dispatcher handle_single for a request or notification: an unknown method
\* is method_not_found, a handler is given the params and its outcome is
\* passed on
handle_single(p, init, caps) ==
    IF p.m \in ServerMethods
      THEN RunHandler(DefaultParams(p), init, caps)
      ELSE Thrown(method_not_found, "", init, caps)

NoCtx == [id |-> 0, cancelled |-> FALSE]

\* the thread that calls register_tool: not inside a call, no call made yet,
\* the latest registration of each name being the one made before start()
NotRegistering ==
    [pc |-> "idle", name |-> "", ver |-> 0, calls |-> 0, last |-> RegisteredAtStart]

\* what is recorded of a handled message: the message, initialized_ at handler
\* entry, the outcome, whether the handler has returned (phase), whether the
\* adapter saw the cancelled flag, the responses emitted for it, and the
\* registries and the registering thread as the handler found them
Observed(p, initAtEntry, o, phase, cancelled, replies) ==
    [t |-> p.t, id |-> p.id, m |-> p.m, name |-> p.name, arg |-> p.arg,
     initAtEntry |-> initAtEntry,
     code |-> o.code, ran |-> o.ran, args |-> o.args, n |-> o.n, stream |-> o.stream,
     phase |-> phase, cancelled |-> cancelled, cancelSent |-> cancelSent,
     replies |-> replies,
     tools |-> tools_, handlers |-> tool_handlers_, reg |-> registering]

NothingHandled ==
    [t |-> "none", id |-> 0, m |-> "", name |-> "", arg |-> 0,
     initAtEntry |-> FALSE, code |-> 0,
     ran |-> "", args |-> "", n |-> 0, stream |-> FALSE, phase |-> "none",
     cancelled |-> FALSE, cancelSent |-> FALSE, replies |-> <<>>,
     tools |-> RegisteredAtStart, handlers |-> RegisteredAtStart,
     reg |-> NotRegistering]

\* the response the dispatcher builds from a handler outcome
ResponseFor(p, o) ==
    IF o.code = 0 THEN make_result(p.id, o.n) ELSE make_error(p.id, o.code)

\* variant: a failed notification handler is answered with an error response
Replies_failed_notification(p, o) ==
    IF is_request(p) \/ o.code # 0 THEN <<ResponseFor(p, o)>> ELSE <<>>

\* dispatcher handle_single returns optional<response>: one response for a
\* request, none for a notification (its handler's failure is swallowed)
Replies(p, o) ==
    IF is_request(p) THEN <<ResponseFor(p, o)>> ELSE <<>>

\* the endpoint hands each reply to its sender, transport_->send
SendAll(q, run, from, msgs) ==
    IF msgs = <<>> THEN q ELSE SendQueue(q, run, from, msgs[1])

CountAll(r, msgs) ==
    IF msgs = <<>> THEN r ELSE [r EXCEPT ![msgs[1].id] = @ + 1]

\* the server worker delivers a request: Server's on_message -> endpoint receive
\* -> dispatcher -> handler -> one response through transport_->send
SrvDeliverRequest ==
    /\ attached["s"] = "Server"
    /\ wpc["s"] = "deliver"
    /\ is_request(wcur["s"])
    /\ LET p == wcur["s"]
           o == handle_single(p, srvInit, srvCaps)
       IN /\ dispatched' = [dispatched EXCEPT ![p.id] = @ + 1]
          /\ srvInit' = o.init
          /\ srvCaps' = o.caps
          /\ IF o.stream
               THEN /\ ctx' = [id |-> p.id, cancelled |-> FALSE]
                    /\ collected' = 0
                    /\ cancelSent' = FALSE
                    /\ wpc' = [wpc EXCEPT !["s"] = "stream"]
                    /\ handled' = Observed(p, srvInit, o, "running", FALSE, <<>>)
                    /\ UNCHANGED <<responded, queue, wcur>>
               ELSE /\ responded' = CountAll(responded, Replies(p, o))
                    /\ queue' = SendAll(queue, running, "s", Replies(p, o))
                    /\ handled' = Observed(p, srvInit, o, "done", FALSE, Replies(p, o))
                    /\ wpc' = [wpc EXCEPT !["s"] = "wait"]
                    /\ wcur' = [wcur EXCEPT !["s"] = NoMsg]
                    /\ UNCHANGED <<ctx, collected, cancelSent>>
    /\ UNCHANGED <<running, ctl, attached, testVars, registryVars, stdioVars, coVars, par, rawSent>>
    /\ UNCHANGED clientVars

\* variant: the cancelled flag is set whatever id the notification names
CancelContext_any(c, id) ==
    [c EXCEPT !.cancelled = TRUE]

\* the endpoint's built-in $/cancelRequest: sets the cancelled flag of the
\* inbound context with that id, or is dropped when no such context is active
CancelContext(c, id) ==
    IF c.id # 0 /\ c.id = id THEN [c EXCEPT !.cancelled = TRUE] ELSE c

\* the server worker delivers a notification: the handler (if any) runs, its
\* failure is swallowed, and no response is sent
SrvDeliverNotification ==
    /\ attached["s"] = "Server"
    /\ wpc["s"] = "deliver"
    /\ is_notification(wcur["s"])
    /\ LET p == wcur["s"]
           o == handle_single(p, srvInit, srvCaps)
           c == Returned(0, "", srvInit, srvCaps)
       IN IF p.m = "$/cancelRequest"
            THEN /\ ctx' = CancelContext(ctx, p.arg)
                 /\ responded' = CountAll(responded, Replies(p, c))
                 /\ queue' = SendAll(queue, running, "s", Replies(p, c))
                 /\ handled' = Observed(p, srvInit, c, "done", FALSE, Replies(p, c))
                 /\ UNCHANGED <<srvInit, srvCaps>>
            ELSE /\ srvInit' = o.init
                 /\ srvCaps' = o.caps
                 /\ responded' = CountAll(responded, Replies(p, o))
                 /\ queue' = SendAll(queue, running, "s", Replies(p, o))
                 /\ handled' = Observed(p, srvInit, o, "done", FALSE, Replies(p, o))
                 /\ UNCHANGED ctx
    /\ wpc' = [wpc EXCEPT !["s"] = "wait"]
    /\ wcur' = [wcur EXCEPT !["s"] = NoMsg]
    /\ UNCHANGED <<running, ctl, attached, testVars, registryVars, stdioVars, coVars, par, rawSent, collected,
                   dispatched, cancelSent>>
    /\ UNCHANGED clientVars

\* notifications/progress for the inbound request with that id
progress(id) == make_notification("notifications/progress", id)

\* report_progress inside a handler: when a request-scoped context is active
\* the endpoint emits notifications/progress for its request through its
\* sender, transport_->send, before report_progress returns
ReportProgress(q, run, c) ==
    IF c.id # 0 THEN SendQueue(q, run, "s", progress(c.id)) ELSE q

\* streaming adapter, one turn of the range-for: pull the next item, push it,
\* report progress, then check is_canceled() and break when it is set
SrvStreamPull ==
    /\ wpc["s"] = "stream"
    /\ collected < StreamLen
    /\ collected' = collected + 1
    /\ queue' = ReportProgress(queue, running, ctx)
    /\ wpc' = [wpc EXCEPT !["s"] = IF ctx.cancelled THEN "streamret" ELSE "stream"]
    /\ UNCHANGED <<running, wcur, ctl, attached, testVars, registryVars, stdioVars, coVars, par, srvInit, srvCaps, ctx,
                   handled, dispatched, responded, cancelSent, rawSent>>
    /\ UNCHANGED clientVars

\* what the adapter and tools/call make of the collected items: the adapter
\* returns results, the handler wraps them as {content: [...]}
StreamOutcome(k, cancelled, init, caps) ==
    [Returned(k, "stream", init, caps) EXCEPT !.args = handled.args]

\* streaming adapter returns (generator exhausted, or break): tools/call
\* builds the response, the endpoint sends it and removes the context
SrvStreamReturn ==
    /\ \/ wpc["s"] = "streamret"
       \/ wpc["s"] = "stream" /\ collected = StreamLen
    /\ LET p == wcur["s"]
           o == StreamOutcome(collected, ctx.cancelled, srvInit, srvCaps)
       IN /\ responded' = CountAll(responded, Replies(p, o))
          /\ queue' = SendAll(queue, running, "s", Replies(p, o))
          /\ handled' = [Observed(p, handled.initAtEntry, o, "done",
                                   wpc["s"] = "streamret", Replies(p, o))
                            EXCEPT !.stream = TRUE]
    /\ ctx' = NoCtx
    /\ wpc' = [wpc EXCEPT !["s"] = "wait"]
    /\ wcur' = [wcur EXCEPT !["s"] = NoMsg]
    /\ UNCHANGED <<running, ctl, attached, testVars, registryVars, stdioVars, coVars, par, srvInit, srvCaps, collected,
                   dispatched, cancelSent, rawSent>>
    /\ UNCHANGED clientVars

----------------------------------------------------------------------------
(* Server lifecycle *)

\* Server::start(): transport_->start()
ServerStart ==
    /\ attached["s"] = "Server"
    /\ Start("s")
    /\ UNCHANGED <<attached, testVars, registryVars, stdioVars, coVars, par, rawSent>>
    /\ UNCHANGED serverVars
    /\ UNCHANGED clientVars

\* Server::close() on a running transport, up to the join of the worker
ServerCloseBegin ==
    /\ attached["s"] = "Server"
    /\ CloseBegin("s")
    /\ UNCHANGED <<attached, testVars, registryVars, stdioVars, coVars, par, rawSent>>
    /\ UNCHANGED serverVars
    /\ UNCHANGED clientVars

\* Server::close(), after the join: emit_close runs the on_close sink, which
\* clears initialized_, and close() clears it again
ServerCloseJoin ==
    /\ attached["s"] = "Server"
    /\ CloseJoin("s")
    /\ srvInit' = FALSE
    /\ UNCHANGED <<attached, testVars, registryVars, stdioVars, coVars, par, rawSent, srvCaps, ctx, collected, handled,
                   dispatched, responded, cancelSent>>
    /\ UNCHANGED clientVars

\* Server::close() on a transport that is not running: transport_->close()
\* returns at once, close() clears initialized_
ServerCloseStopped ==
    /\ attached["s"] = "Server"
    /\ ctl["s"] = "idle"
    /\ ~running["s"]
    /\ srvInit' = FALSE
    /\ UNCHANGED transportVars
    /\ UNCHANGED <<attached, testVars, registryVars, stdioVars, coVars, par, rawSent, srvCaps, ctx, collected, handled,
                   dispatched, responded, cancelSent>>
    /\ UNCHANGED clientVars

----------------------------------------------------------------------------
(* A transport whose sinks belong to a test: it is started, and its worker  *)
(* hands every message to an on_message sink that only looks at it.         *)

PeerStart(side) ==
    /\ attached[side] = "test"
    /\ ~running[side]
    /\ Start(side)
    /\ UNCHANGED <<attached, testVars, registryVars, stdioVars, coVars, par, rawSent>>
    /\ UNCHANGED serverVars
    /\ UNCHANGED clientVars

\* the test's worker pops a message and its sink returns
PeerConsume(side) ==
    /\ attached[side] = "test"
    /\ wpc[side] = "wait"
    /\ running[side]
    /\ queue[side] # <<>>
    /\ queue' = [queue EXCEPT ![side] = Tail(@)]
    /\ UNCHANGED <<running, wpc, wcur, ctl, attached, testVars, registryVars, stdioVars, coVars, par, rawSent>>
    /\ UNCHANGED serverVars
    /\ UNCHANGED clientVars

\* the test's worker pops a message and its on_message sink records it
PeerObserve(side) ==
    /\ attached[side] = "test"
    /\ wpc[side] = "wait"
    /\ running[side]
    /\ queue[side] # <<>>
    /\ queue' = [queue EXCEPT ![side] = Tail(@)]
    /\ delivered' = [delivered EXCEPT ![side] = Append(@, Head(queue[side]))]
    /\ UNCHANGED <<running, wpc, wcur, ctl, attached, par, cancelIds, registryVars, stdioVars, coVars, rawSent, thr, expired,
                   acceptedLog, started, closeFired, errorCalls, sendCalls,
                   startAgain>>
    /\ UNCHANGED serverVars
    /\ UNCHANGED clientVars

\* the server worker pops the next message of its queue
ServerPop ==
    /\ attached["s"] = "Server"
    /\ WorkerPop("s")
    /\ UNCHANGED <<attached, testVars, registryVars, stdioVars, coVars, par, rawSent>>
    /\ UNCHANGED serverVars
    /\ UNCHANGED clientVars

\* the server worker sees running_ false and returns
ServerWorkerExit ==
    /\ attached["s"] = "Server"
    /\ WorkerExit("s")
    /\ UNCHANGED <<attached, testVars, registryVars, stdioVars, coVars, par, rawSent>>
    /\ UNCHANGED serverVars
    /\ UNCHANGED clientVars

----------------------------------------------------------------------------
(* The raw peer of the Server: a test that writes JSON-RPC messages with    *)
(* client_transport->send, as tests/test_server.cpp does.                   *)

Shape(t, m, name, arg) == [t |-> t, m |-> m, name |-> name, arg |-> arg]

\* requests and notifications of the gate scenarios
GateAlphabet ==
    {Shape("request", "initialize", "", c) : c \in {0, 1, 2}}
    \cup {Shape("request", m, "", 0) : m \in {"tools/list", "prompts/list", "resources/list", "no/such"}}
    \cup {Shape("request", "tools/call", nm, 0) :
             nm \in {"", NoName, NoParams, "nope", "echo", "boom", "deny"}}
    \cup {Shape("request", "tools/call", "echo", 1)}
    \cup {Shape("request", "prompts/get", nm, 0) : nm \in {"", "greet"}}
    \cup {Shape("request", "resources/read", nm, 0) : nm \in {"", "file:///a"}}
    \cup {Shape("notification", m, "", 0) : m \in {"notifications/initialized", "tools/list"}}

\* requests and notifications of the streaming scenarios
StreamAlphabet ==
    {Shape("request", "initialize", "", 1),
     Shape("request", "tools/call", "stream", 0),
     Shape("notification", "$/cancelRequest", "", 0)}

\* ids the raw peer has used so far
UsedRawIds == (MaxCliReq + 1)..(MaxCliReq + rawSent)

RawMessage(sh, target) ==
    IF sh.t = "request"
      THEN make_request(MaxCliReq + rawSent + 1, sh.m, sh.name, sh.arg)
      ELSE make_notification(sh.m, IF sh.m = "$/cancelRequest" THEN target ELSE sh.arg)

\* client_transport->send(message) by the test
RawSend(alphabet, max) ==
    /\ attached["c"] = "test"
    /\ rawSent < max
    /\ \E sh \in alphabet :
         \E target \in (IF sh.m = "$/cancelRequest" THEN UsedRawIds ELSE {0}) :
            /\ queue' = SendQueue(queue, running, "c", RawMessage(sh, target))
            /\ cancelSent' =
                 IF /\ running["c"]
                    /\ sh.m = "$/cancelRequest"
                    /\ wpc["s"] = "stream"
                    /\ target = ctx.id
                    /\ collected < StreamLen - 1
                   THEN TRUE
                   ELSE cancelSent
    /\ rawSent' = rawSent + 1
    /\ UNCHANGED <<running, wpc, wcur, ctl, attached, testVars, registryVars, stdioVars, coVars, par, srvInit, srvCaps, ctx,
                   collected, handled, dispatched, responded>>
    /\ UNCHANGED clientVars

----------------------------------------------------------------------------
(* Server::register_tool, called by an application thread while the server   *)
(* runs: two assignments, with nothing that keeps the worker out in between. *)

\* variant: an insertion that keeps an existing entry
MapAssign_insert(m, k, v) == IF m[k] # 0 THEN m ELSE [m EXCEPT ![k] = v]

\* map[key] = value
MapAssign(m, k, v) == [m EXCEPT ![k] = v]

\* names the application registers after start(): one already registered,
\* one new
LateNames == {"echo", "fresh"}

\* register_tool, first statement: tools_[tool.name] = tool
RegisterToolDefinition ==
    /\ attached["s"] = "Server"
    /\ registering.pc = "idle"
    /\ registering.calls < MaxRegs
    /\ \E name \in LateNames :
         LET ver == registering.calls + 2
         IN /\ tools_' = MapAssign(tools_, name, ver)
            /\ registering' = [pc |-> "handler", name |-> name, ver |-> ver,
                               calls |-> registering.calls + 1,
                               last |-> [registering.last EXCEPT ![name] = ver]]
    /\ UNCHANGED tool_handlers_
    /\ UNCHANGED transportVars
    /\ UNCHANGED <<attached, testVars, stdioVars, coVars, par, rawSent, srvInit, srvCaps, ctx, collected,
                   handled, dispatched, responded, cancelSent>>
    /\ UNCHANGED clientVars

\* register_tool, second statement: tool_handlers_[tool.name] = handler
RegisterToolHandler ==
    /\ registering.pc = "handler"
    /\ tool_handlers_' = MapAssign(tool_handlers_, registering.name, registering.ver)
    /\ registering' = [registering EXCEPT !.pc = "idle"]
    /\ UNCHANGED tools_
    /\ UNCHANGED transportVars
    /\ UNCHANGED <<attached, testVars, stdioVars, coVars, par, rawSent, srvInit, srvCaps, ctx, collected,
                   handled, dispatched, responded, cancelSent>>
    /\ UNCHANGED clientVars

RegistryAlphabet ==
    {Shape("request", "initialize", "", 1),
     Shape("request", "tools/list", "", 0),
     Shape("request", "tools/call", "echo", 1),
     Shape("request", "tools/call", "fresh", 1)}

----------------------------------------------------------------------------
(* Batches: the endpoint's receive unwraps an array and handles every child  *)
(* with handle_single; the collected responses go out as one array.          *)

\* a JSON array of messages
make_batch(items) ==
    [t |-> "batch", id |-> 0, m |-> "", name |-> "", arg |-> 0, code |-> 0,
     n |-> 0, items |-> items]
is_batch(j) == j.t = "batch"

\* variant: a notification child gets an entry (a null result) in the batch
ChildReplies_all(p, o) ==
    IF is_request(p) THEN <<ResponseFor(p, o)>> ELSE <<make_result(0, 0)>>

\* the entries a child contributes to the outbound batch
ChildReplies(p, o) == Replies(p, o)

\* the children are handled in order, each seeing the Server fields the
\* earlier ones left; out collects their responses
RECURSIVE HandleChildren(_, _, _)
HandleChildren(items, init, caps) ==
    IF items = <<>>
      THEN [out |-> <<>>, init |-> init, caps |-> caps]
      ELSE LET o == handle_single(Head(items), init, caps)
               rest == HandleChildren(Tail(items), o.init, o.caps)
           IN [out |-> ChildReplies(Head(items), o) \o rest.out,
               init |-> rest.init, caps |-> rest.caps]

\* what receive sends for an array: invalid_request for an empty one, nothing
\* when no child responded, else one array of the responses
BatchReplies(items, out) ==
    IF items = <<>> THEN <<make_error(0, invalid_request)>>
    ELSE IF out = <<>> THEN <<>>
    ELSE <<make_batch(out)>>

RECURSIVE CountEach(_, _)
CountEach(r, msgs) ==
    IF msgs = <<>> THEN r
    ELSE CountEach([r EXCEPT ![Head(msgs).id] = @ + 1], Tail(msgs))

\* what is recorded of a handled array: its children and what was sent for it
BatchObserved(p, initAtEntry, replies) ==
    [t |-> "batch", id |-> 0, m |-> "", name |-> "", arg |-> 0,
     initAtEntry |-> initAtEntry, code |-> 0,
     ran |-> "", args |-> "", n |-> 0, stream |-> FALSE, phase |-> "done",
     cancelled |-> FALSE, cancelSent |-> FALSE, replies |-> replies,
     items |-> p.items]

\* the server worker delivers an array: Server's on_message -> endpoint receive
SrvDeliverBatch ==
    /\ attached["s"] = "Server"
    /\ wpc["s"] = "deliver"
    /\ is_batch(wcur["s"])
    /\ LET p == wcur["s"]
           r == HandleChildren(p.items, srvInit, srvCaps)
           replies == BatchReplies(p.items, r.out)
       IN /\ srvInit' = r.init
          /\ srvCaps' = r.caps
          /\ dispatched' = CountEach(dispatched, SelectSeq(p.items, is_request))
          /\ responded' = CountEach(responded,
                                    IF p.items = <<>> THEN replies ELSE r.out)
          /\ queue' = SendAll(queue, running, "s", replies)
          /\ handled' = BatchObserved(p, srvInit, replies)
    /\ wpc' = [wpc EXCEPT !["s"] = "wait"]
    /\ wcur' = [wcur EXCEPT !["s"] = NoMsg]
    /\ UNCHANGED <<running, ctl, attached, testVars, registryVars, stdioVars, coVars, par, rawSent, ctx, collected,
                   cancelSent>>
    /\ UNCHANGED clientVars

\* children of the batches the raw peer sends
BatchAlphabet ==
    {Shape("request", "initialize", "", 1),
     Shape("request", "tools/list", "", 0),
     Shape("request", "tools/call", "echo", 0),
     Shape("notification", "notifications/initialized", "", 0),
     Shape("notification", "tools/list", "", 0)}

\* arrays of up to MaxBatch children
BatchShapes == UNION {[1..k -> BatchAlphabet] : k \in 0..MaxBatch}

\* the k-th child of the array sent after sent earlier messages
BatchChild(sh, sent, k) ==
    IF sh.t = "request"
      THEN make_request(MaxCliReq + sent * MaxBatch + k, sh.m, sh.name, sh.arg)
      ELSE make_notification(sh.m, sh.arg)

\* client_transport->send(array) by the test
RawSendBatch ==
    /\ attached["c"] = "test"
    /\ MaxCliReq + (rawSent + 1) * MaxBatch <= MaxCliReq + MaxRaw + MaxStreamMsgs
    /\ \E shs \in BatchShapes :
         queue' = SendQueue(queue, running, "c",
                     make_batch([k \in 1..Len(shs) |-> BatchChild(shs[k], rawSent, k)]))
    /\ rawSent' = rawSent + 1
    /\ UNCHANGED <<running, wpc, wcur, ctl, attached, testVars, registryVars, stdioVars, coVars, par, srvInit, srvCaps, ctx,
                   collected, handled, dispatched, responded, cancelSent>>
    /\ UNCHANGED clientVars

----------------------------------------------------------------------------
(* Transport tests: both transports of the pair are held by a test, as in   *)
(* tests/test_transport.cpp.  Two application threads call start(), send()  *)
(* and close(); the sinks of both transports record what they are given.    *)

Threads == {"t1", "t2"}

Idle == [pc |-> "idle", side |-> ""]

\* std::terminate has not been called
Alive == \A t \in Threads : thr[t].pc # "terminated"

\* no thread is inside close() of that transport
NotClosing(side) == \A t \in Threads : thr[t].side # side

\* start() by the test, at most max times with effect: a call on a running
\* transport returns at once
TStartWithin(side, max) ==
    /\ Alive
    /\ attached[side] = "test"
    /\ side \notin expired
    /\ NotClosing(side)
    /\ running[side] \/ started[side] < max
    /\ Start(side)
    /\ started' = IF wpc'[side] # wpc[side]
                    THEN [started EXCEPT ![side] = @ + 1] ELSE started
    /\ closeFired' = IF wpc'[side] # wpc[side]
                       THEN [closeFired EXCEPT ![side] = 0] ELSE closeFired
    /\ startAgain' = IF running[side] THEN startAgain \cup {side} ELSE startAgain
    /\ UNCHANGED <<attached, rawSent, thr, expired, delivered, acceptedLog,
                   errorCalls, sendCalls, par, cancelIds, registryVars, stdioVars, coVars>>
    /\ UNCHANGED serverVars
    /\ UNCHANGED clientVars

\* start() by the test, in the tests that start each transport once
TStart(side) == TStartWithin(side, MaxStarts)

\* start() by the test, in the tests that close a transport and start it again
TRestart(side) == TStartWithin(side, MaxCycles)

\* what send() reports through on_error ("" = accepted)
SendError(run, gone, from) ==
    IF ~run[from] THEN "Transport not started"
    ELSE IF Peer(from) \in gone THEN "No peer connected"
    ELSE ""

\* send() by thread t of the test, on the transport of that side
TSend(t, side) ==
    /\ Alive
    /\ attached[side] = "test"
    /\ side \notin expired
    /\ thr[t] = Idle
    /\ sendCalls < MaxSends
    /\ LET msg == make_notification(t, sendCalls + 1)
           err == SendError(running, expired, side)
       IN /\ queue' = IF err = "" THEN SendQueue(queue, running, side, msg) ELSE queue
          /\ acceptedLog' = IF err = ""
                              THEN [acceptedLog EXCEPT ![Peer(side)] = Append(@, msg)]
                              ELSE acceptedLog
          /\ errorCalls' = IF err = "" THEN errorCalls
                             ELSE [errorCalls EXCEPT ![side] = @ + 1]
    /\ sendCalls' = sendCalls + 1
    /\ UNCHANGED <<running, wpc, wcur, ctl, attached, rawSent, thr, expired,
                   delivered, started, closeFired, startAgain, par, cancelIds, registryVars, stdioVars, coVars>>
    /\ UNCHANGED serverVars
    /\ UNCHANGED clientVars

\* the worker of a test's transport pops the next message
TPop(side) ==
    /\ Alive
    /\ attached[side] = "test"
    /\ WorkerPop(side)
    /\ UNCHANGED <<attached, testVars, registryVars, stdioVars, coVars, par, rawSent>>
    /\ UNCHANGED serverVars
    /\ UNCHANGED clientVars

\* emit_message: the test's on_message sink records the message
TDeliver(side) ==
    /\ Alive
    /\ attached[side] = "test"
    /\ wpc[side] = "deliver"
    /\ delivered' = [delivered EXCEPT ![side] = Append(@, wcur[side])]
    /\ wpc' = [wpc EXCEPT ![side] = "wait"]
    /\ wcur' = [wcur EXCEPT ![side] = NoMsg]
    /\ UNCHANGED <<running, queue, ctl, attached, rawSent, thr, expired,
                   acceptedLog, started, closeFired, errorCalls, sendCalls,
                   startAgain, par, cancelIds, registryVars, stdioVars, coVars>>
    /\ UNCHANGED serverVars
    /\ UNCHANGED clientVars

\* the worker of a test's transport sees running_ false and returns
TWorkerExit(side) ==
    /\ Alive
    /\ attached[side] = "test"
    /\ WorkerExit(side)
    /\ UNCHANGED <<attached, testVars, registryVars, stdioVars, coVars, par, rawSent>>
    /\ UNCHANGED serverVars
    /\ UNCHANGED clientVars

\* close() by thread t, line 229: a call on a transport that is not running
\* returns at once, which leaves the thread at `after`; else the thread goes
\* on to clear running_
TCloseCheckTo(t, side, after) ==
    /\ Alive
    /\ attached[side] = "test"
    /\ side \notin expired
    /\ thr[t] = Idle
    /\ thr' = IF running[side]
                THEN [thr EXCEPT ![t] = [pc |-> "clear", side |-> side]]
                ELSE [thr EXCEPT ![t] = after]
    /\ UNCHANGED transportVars
    /\ UNCHANGED <<attached, rawSent, expired, delivered, acceptedLog, started,
                   closeFired, errorCalls, sendCalls, startAgain, par, cancelIds, registryVars, stdioVars, coVars>>
    /\ UNCHANGED serverVars
    /\ UNCHANGED clientVars

\* close() by thread t; the caller goes on with its next call
TCloseCheck(t, side) == TCloseCheckTo(t, side, Idle)

\* the thread's call of close() has returned and it has made no other call
CloseHasReturned(side) == [pc |-> "returned", side |-> side]

\* close() by thread t; the early return is kept until the caller goes on
TCloseCheckSeen(t, side) == TCloseCheckTo(t, side, CloseHasReturned(side))

\* the caller whose close() returned at once goes on
TCloseLeave(t) ==
    /\ Alive
    /\ thr[t].pc = "returned"
    /\ thr' = [thr EXCEPT ![t] = Idle]
    /\ UNCHANGED transportVars
    /\ UNCHANGED <<attached, rawSent, expired, delivered, acceptedLog, started,
                   closeFired, errorCalls, sendCalls, startAgain, par, cancelIds, registryVars, stdioVars, coVars>>
    /\ UNCHANGED serverVars
    /\ UNCHANGED clientVars

\* variant: close() also empties the queue
TCloseClear_drain(t) ==
    /\ Alive
    /\ thr[t].pc = "clear"
    /\ running' = [running EXCEPT ![thr[t].side] = FALSE]
    /\ queue' = [queue EXCEPT ![thr[t].side] = <<>>]
    /\ thr' = [thr EXCEPT ![t].pc = "join"]
    /\ UNCHANGED <<wpc, wcur, ctl>>
    /\ UNCHANGED <<attached, rawSent, expired, delivered, acceptedLog, started,
                   closeFired, errorCalls, sendCalls, startAgain, par, cancelIds, registryVars, stdioVars, coVars>>
    /\ UNCHANGED serverVars
    /\ UNCHANGED clientVars

\* close() by thread t, lines 230-231: running_ = false, notify_all
TCloseClear(t) ==
    /\ Alive
    /\ thr[t].pc = "clear"
    /\ running' = [running EXCEPT ![thr[t].side] = FALSE]
    /\ thr' = [thr EXCEPT ![t].pc = "join"]
    /\ UNCHANGED <<queue, wpc, wcur, ctl>>
    /\ UNCHANGED <<attached, rawSent, expired, delivered, acceptedLog, started,
                   closeFired, errorCalls, sendCalls, startAgain, par, cancelIds, registryVars, stdioVars, coVars>>
    /\ UNCHANGED serverVars
    /\ UNCHANGED clientVars

\* another thread is joining the same std::thread object
JoinRace(t) ==
    \E u \in Threads \ {t} : thr[u].pc = "join" /\ thr[u].side = thr[t].side

\* close() by thread t, lines 232-235: join the worker if it is joinable (the
\* join returns once the worker has returned), then emit_close.  Two threads
\* joining the same std::thread is undefined: the join may also terminate
\* the program.
TCloseJoin(t) ==
    /\ Alive
    /\ thr[t].pc = "join"
    /\ wpc[thr[t].side] \in {"exited", "none"}
    /\ \/ /\ wpc' = [wpc EXCEPT ![thr[t].side] = "none"]
          /\ closeFired' = [closeFired EXCEPT ![thr[t].side] = @ + 1]
          /\ thr' = [thr EXCEPT ![t] = Idle]
       \/ /\ JoinRace(t)
          /\ wpc[thr[t].side] = "exited"
          /\ thr' = [thr EXCEPT ![t].pc = "terminated"]
          /\ UNCHANGED <<wpc, closeFired>>
    /\ UNCHANGED <<running, queue, wcur, ctl>>
    /\ UNCHANGED <<attached, rawSent, expired, delivered, acceptedLog, started,
                   errorCalls, sendCalls, startAgain, par, cancelIds, registryVars, stdioVars, coVars>>
    /\ UNCHANGED serverVars
    /\ UNCHANGED clientVars

\* the test drops its last reference to a transport that is not running: the
\* destructor's close() returns at once and the peer's weak_ptr expires
TDestroy(side) ==
    /\ Alive
    /\ attached[side] = "test"
    /\ side \notin expired
    /\ expired = {}
    /\ ~running[side]
    /\ wpc[side] = "none"
    /\ NotClosing(side)
    /\ expired' = {side}
    /\ UNCHANGED transportVars
    /\ UNCHANGED <<attached, rawSent, thr, delivered, acceptedLog, started,
                   closeFired, errorCalls, sendCalls, startAgain, par, cancelIds, registryVars, stdioVars, coVars>>
    /\ UNCHANGED serverVars
    /\ UNCHANGED clientVars

\* The worker's wait in detail.  queue_cv_.wait(lock, pred) evaluates pred
\* with queue_mutex_ held and, when it is false, releases the mutex and blocks
\* in one step; send() pushes under the mutex and notifies afterwards; close()
\* clears running_ and notifies without taking the mutex.

\* worker: pred() is false (queue empty, running_ true); the thread is about
\* to block in wait(lock)
WorkerPark(side) ==
    /\ Alive
    /\ attached[side] = "test"
    /\ wpc[side] = "wait"
    /\ running[side]
    /\ queue[side] = <<>>
    /\ wpc' = [wpc EXCEPT ![side] = "tosleep"]
    /\ UNCHANGED <<running, queue, wcur, ctl>>
    /\ UNCHANGED <<attached, testVars, registryVars, stdioVars, coVars, par, rawSent>>
    /\ UNCHANGED serverVars
    /\ UNCHANGED clientVars

\* worker: blocks on queue_cv_
WorkerBlock(side) ==
    /\ Alive
    /\ wpc[side] = "tosleep"
    /\ wpc' = [wpc EXCEPT ![side] = "asleep"]
    /\ UNCHANGED <<running, queue, wcur, ctl>>
    /\ UNCHANGED <<attached, testVars, registryVars, stdioVars, coVars, par, rawSent>>
    /\ UNCHANGED serverVars
    /\ UNCHANGED clientVars

\* queue_cv_.notify_one() / notify_all() of that side's transport: a worker
\* blocked on it wakes and evaluates pred() again; a worker that is not
\* blocked is not affected
Notify(w, side) ==
    IF w[side] = "asleep" THEN [w EXCEPT ![side] = "wait"] ELSE w

\* send() by thread t, with the notify_one() of the peer's queue_cv_; the push
\* needs the peer's queue_mutex_, which the peer's worker holds from pred()
\* until it blocks
TSendNotify(t, side) ==
    /\ Alive
    /\ attached[side] = "test"
    /\ side \notin expired
    /\ thr[t] = Idle
    /\ sendCalls < MaxSends
    /\ wpc[Peer(side)] # "tosleep"
    /\ LET msg == make_notification(t, sendCalls + 1)
           err == SendError(running, expired, side)
       IN /\ queue' = IF err = "" THEN SendQueue(queue, running, side, msg) ELSE queue
          /\ wpc' = IF err = "" THEN Notify(wpc, Peer(side)) ELSE wpc
          /\ acceptedLog' = IF err = ""
                              THEN [acceptedLog EXCEPT ![Peer(side)] = Append(@, msg)]
                              ELSE acceptedLog
          /\ errorCalls' = IF err = "" THEN errorCalls
                             ELSE [errorCalls EXCEPT ![side] = @ + 1]
    /\ sendCalls' = sendCalls + 1
    /\ UNCHANGED <<running, wcur, ctl, attached, rawSent, thr, expired,
                   delivered, started, closeFired, startAgain, par, cancelIds,
                   registryVars, stdioVars, coVars>>
    /\ UNCHANGED serverVars
    /\ UNCHANGED clientVars

\* close() by thread t, lines 230-231, with the notify_all()
TCloseClearNotify(t) ==
    /\ Alive
    /\ thr[t].pc = "clear"
    /\ running' = [running EXCEPT ![thr[t].side] = FALSE]
    /\ wpc' = Notify(wpc, thr[t].side)
    /\ thr' = [thr EXCEPT ![t].pc = "join"]
    /\ UNCHANGED <<queue, wcur, ctl>>
    /\ UNCHANGED <<attached, rawSent, expired, delivered, acceptedLog, started,
                   closeFired, errorCalls, sendCalls, startAgain, par, cancelIds,
                   registryVars, stdioVars, coVars>>
    /\ UNCHANGED serverVars
    /\ UNCHANGED clientVars

\* what the worker thread of a side can do by itself
WorkerSteps(side) ==
    \/ TPop(side)
    \/ TDeliver(side)
    \/ TWorkerExit(side)
    \/ WorkerPark(side)
    \/ WorkerBlock(side)

\* one test thread that starts, sends to and closes the "c" transport, the
\* peer sending to it, with the worker's wait in detail
NextWait ==
    \/ \E side \in Sides : TStart(side)
    \/ TSendNotify("t2", "s")
    \/ WorkerSteps("c")
    \/ TCloseCheck("t1", "c")
    \/ TCloseClearNotify("t1")
    \/ TCloseJoin("t1")

\* send() by a thread that sends only while the receiver is not running
TSendStopped(t, side) ==
    /\ ~running[Peer(side)]
    /\ TSend(t, side)

NextCycle ==
    \/ TRestart("c")
    \/ TStart("s")
    \/ TSendStopped("t1", "s")
    \/ TSend("t2", "s")
    \/ TPop("c")
    \/ TDeliver("c")
    \/ TWorkerExit("c")
    \/ \E t \in Threads : TCloseCheckSeen(t, "c")
    \/ \E t \in Threads : TCloseClear(t)
    \/ \E t \in Threads : TCloseJoin(t)
    \/ \E t \in Threads : TCloseLeave(t)

NextTransport ==
    \/ \E side \in Sides : TStart(side)
    \/ \E t \in Threads : TSend(t, "c")
    \/ TSend("t2", "s")
    \/ \E side \in Sides : TPop(side)
    \/ \E side \in Sides : TDeliver(side)
    \/ \E side \in Sides : TWorkerExit(side)
    \/ \E t \in Threads : TCloseCheck(t, "c")
    \/ \E t \in Threads : TCloseClear(t)
    \/ \E t \in Threads : TCloseJoin(t)
    \/ TDestroy("s")

----------------------------------------------------------------------------
(* Initial state: both transports constructed and connected, not started;   *)
(* the Server (or the Client) constructed on its transport.                 *)

\* execute_parallel_async has not been called
NoPar == [pc |-> "idle", futures |-> <<>>, got |-> 0, result |-> "",
          results |-> <<>>, overtaken |-> FALSE]

NoCall == [w |-> "", initAtEntry |-> FALSE, err |-> "", errCalls |-> 0,
           succCalls |-> 0, sent |-> FALSE]

InitCommon ==
    /\ running = [s \in Sides |-> FALSE]
    /\ queue = [s \in Sides |-> <<>>]
    /\ wpc = [s \in Sides |-> "none"]
    /\ wcur = [s \in Sides |-> NoMsg]
    /\ ctl = [s \in Sides |-> "idle"]
    /\ srvInit = FALSE
    /\ srvCaps = 0
    /\ ctx = NoCtx
    /\ collected = 0
    /\ handled = NothingHandled
    /\ dispatched = [i \in Ids |-> 0]
    /\ responded = [i \in Ids \cup {0} |-> 0]
    /\ cancelSent = FALSE
    /\ rawSent = 0
    /\ cliInit = FALSE
    /\ nextId = 1
    /\ outstanding = {}
    /\ reqMethod = [i \in CliIds |-> ""]
    /\ succFired = [i \in CliIds |-> 0]
    /\ errFired = [i \in CliIds |-> 0]
    /\ wire = <<>>
    /\ lastCall = NoCall
    /\ accepted = {}
    /\ unmatched = 0
    /\ closedPending = {}
    /\ thr = [t \in Threads |-> Idle]
    /\ expired = {}
    /\ delivered = [s \in Sides |-> <<>>]
    /\ acceptedLog = [s \in Sides |-> <<>>]
    /\ started = [s \in Sides |-> 0]
    /\ closeFired = [s \in Sides |-> 0]
    /\ errorCalls = [s \in Sides |-> 0]
    /\ sendCalls = 0
    /\ startAgain = {}
    /\ par = NoPar
    /\ cancelIds = {}
    /\ tools_ = RegisteredAtStart
    /\ tool_handlers_ = RegisteredAtStart
    /\ registering = NotRegistering
    /\ stdin = <<>>
    /\ adapter = NotCalled
    /\ co = NoCoroutines
    /\ stdio = StdioConstructed

\* a Server on the "s" transport, a test holding the "c" transport
Init ==
    /\ InitCommon
    /\ attached = [c |-> "test", s |-> "Server"]

ServerSteps ==
    \/ ServerStart
    \/ ServerCloseBegin
    \/ ServerCloseJoin
    \/ ServerCloseStopped
    \/ ServerPop
    \/ ServerWorkerExit
    \/ SrvDeliverRequest
    \/ SrvDeliverNotification

TestSideSteps ==
    \/ PeerStart("c")
    \/ PeerConsume("c")

Next ==
    \/ ServerSteps
    \/ TestSideSteps
    \/ RawSend(GateAlphabet, MaxRaw)

Spec == Init /\ [][Next]_vars

NextStream ==
    \/ ServerSteps
    \/ TestSideSteps
    \/ SrvStreamPull
    \/ SrvStreamReturn
    \/ RawSend(StreamAlphabet, MaxStreamMsgs)

SpecStream == Init /\ [][NextStream]_vars

\* the streaming scenarios with a test that records what its sink is given
NextProgress ==
    \/ ServerSteps
    \/ PeerStart("c")
    \/ PeerObserve("c")
    \/ SrvStreamPull
    \/ SrvStreamReturn
    \/ RawSend(StreamAlphabet, MaxStreamMsgs)

SpecProgress == Init /\ [][NextProgress]_vars

\* a raw test peer that sends arrays to a Server
NextBatch ==
    \/ ServerStart
    \/ ServerCloseBegin
    \/ ServerCloseJoin
    \/ ServerCloseStopped
    \/ ServerPop
    \/ ServerWorkerExit
    \/ SrvDeliverBatch
    \/ TestSideSteps
    \/ RawSendBatch

SpecBatch == Init /\ [][NextBatch]_vars

\* A transport that delivers on more than one thread (spec.md section 5: two
\* inbound messages may be in flight concurrently): while the handler of a
\* request runs, another delivery thread hands the endpoint a $/cancelRequest
\* for that request.
ConcurrentCancel ==
    /\ attached["s"] = "Server"
    /\ ctx.id # 0
    /\ ~ctx.cancelled
    /\ ctx' = CancelContext(ctx, ctx.id)
    /\ UNCHANGED transportVars
    /\ UNCHANGED <<attached, testVars, registryVars, stdioVars, coVars, par, rawSent, srvInit, srvCaps, collected, handled,
                   dispatched, responded, cancelSent>>
    /\ UNCHANGED clientVars

NextConc ==
    \/ NextStream
    \/ ConcurrentCancel

SpecConc == Init /\ [][NextConc]_vars

\* a started Server handling requests while the application registers tools
NextRegistry ==
    \/ ServerStart
    \/ ServerPop
    \/ SrvDeliverRequest
    \/ TestSideSteps
    \/ RegisterToolDefinition
    \/ RegisterToolHandler
    \/ RawSend(RegistryAlphabet, MaxStreamMsgs)

SpecRegistry == Init /\ [][NextRegistry]_vars

\* The same transport, the other delivery thread handing the endpoint a
\* $/cancelRequest that names any request the peer has sent, while the
\* handler of a request runs.
ConcurrentCancelOf ==
    /\ attached["s"] = "Server"
    /\ ctx.id # 0
    /\ \E id \in UsedRawIds \ cancelIds :
         /\ ctx' = CancelContext(ctx, id)
         /\ cancelIds' = cancelIds \cup {id}
    /\ UNCHANGED transportVars
    /\ UNCHANGED <<attached, thr, expired, delivered, acceptedLog, started, closeFired,
                   errorCalls, sendCalls, startAgain, par, rawSent, srvInit, srvCaps,
                   collected, handled, dispatched, responded, cancelSent, registryVars, stdioVars, coVars>>
    /\ UNCHANGED clientVars

NextIsolation ==
    \/ NextStream
    \/ ConcurrentCancelOf

SpecIsolation == Init /\ [][NextIsolation]_vars

\* both transports held by a test
InitTransport ==
    /\ InitCommon
    /\ attached = [c |-> "test", s |-> "test"]

SpecTransport == InitTransport /\ [][NextTransport]_vars

SpecWait == InitTransport /\ [][NextWait]_vars

\* the Restart test: the client-side transport is closed and started again
\* while the server side keeps sending
SpecCycle == InitTransport /\ [][NextCycle]_vars

\* a Server whose streaming tool is called, request after request
SpecAdapter == Init /\ [][NextAdapter]_vars

\* Task and Generator objects created, move-constructed and destroyed
SpecFrames == InitTransport /\ [][NextFrames]_vars

\* a StdioTransport held by a test, and the process that writes its input
SpecStdio == InitTransport /\ [][NextStdio]_vars

----------------------------------------------------------------------------
(* MCP Client *)

\* outcome of a wrapper: either the error callback is called with err and
\* nothing is sent, or the request for method is given to the endpoint
Refused(text) == [err |-> text, errCalls |-> 1, succCalls |-> 0, method |-> ""]
Requests(method) == [err |-> "", errCalls |-> 0, succCalls |-> 0, method |-> method]

list_tools(init) ==
    IF ~init THEN Refused("Client not initialized") ELSE Requests("tools/list")

call_tool(init) ==
    IF ~init THEN Refused("Client not initialized") ELSE Requests("tools/call")

list_prompts(init) ==
    IF ~init THEN Refused("Client not initialized") ELSE Requests("prompts/list")

get_prompt(init) ==
    IF ~init THEN Refused("Client not initialized") ELSE Requests("prompts/get")

list_resources(init) ==
    IF ~init THEN Refused("Client not initialized") ELSE Requests("resources/list")

\* variant: read_resource without the initialized_ check
read_resource_unchecked(init) ==
    Requests("resources/read")

read_resource(init) ==
    IF ~init THEN Refused("Client not initialized") ELSE Requests("resources/read")

Wrappers == {"list_tools", "call_tool", "list_prompts", "get_prompt",
             "list_resources", "read_resource"}

WrapperMethods == GatedMethods

Wrapper(w, init) ==
    CASE w = "list_tools"     -> list_tools(init)
      [] w = "call_tool"      -> call_tool(init)
      [] w = "list_prompts"   -> list_prompts(init)
      [] w = "get_prompt"     -> get_prompt(init)
      [] w = "list_resources" -> list_resources(init)
      [] w = "read_resource"  -> read_resource(init)

\* endpoint send_request: allocates the id, inserts the outstanding entry and
\* calls the sender, transport_->send; ids up to maxId are modelled
SendRequestWithin(method, maxId) ==
    /\ nextId <= maxId
    /\ nextId' = nextId + 1
    /\ outstanding' = outstanding \cup {nextId}
    /\ reqMethod' = [reqMethod EXCEPT ![nextId] = method]
    /\ wire' = Append(wire, method)
    /\ accepted' = IF running["c"] THEN accepted \cup {nextId} ELSE accepted
    /\ queue' = SendQueue(queue, running, "c", make_request(nextId, method, "", 0))

SendRequest(method) == SendRequestWithin(method, MaxCliReq)

\* Client::initialize(): sends the initialize request
ClientInitialize ==
    /\ attached["c"] = "Client"
    /\ ctl["c"] = "idle"
    /\ SendRequest("initialize")
    /\ UNCHANGED <<running, wpc, wcur, ctl, attached, testVars, registryVars, stdioVars, coVars, par, rawSent, cliInit,
                   succFired, errFired, lastCall, unmatched, closedPending>>
    /\ UNCHANGED serverVars

\* one of the wrappers in ws, called by the application thread
ClientWrapper(ws) ==
    /\ attached["c"] = "Client"
    /\ ctl["c"] = "idle"
    /\ \E w \in ws :
         LET r == Wrapper(w, cliInit)
         IN /\ lastCall' = [w |-> w, initAtEntry |-> cliInit, err |-> r.err,
                            errCalls |-> r.errCalls, succCalls |-> r.succCalls,
                            sent |-> r.method # ""]
            /\ IF r.method = ""
                 THEN UNCHANGED <<nextId, outstanding, reqMethod, wire,
                                  accepted, queue>>
                 ELSE SendRequest(r.method)
    /\ UNCHANGED <<running, wpc, wcur, ctl, attached, testVars, registryVars, stdioVars, coVars, par, rawSent, cliInit,
                   succFired, errFired, unmatched, closedPending>>
    /\ UNCHANGED serverVars

\* Client::start(): transport_->start()
ClientStart ==
    /\ attached["c"] = "Client"
    /\ Start("c")
    /\ UNCHANGED <<attached, testVars, registryVars, stdioVars, coVars, par, rawSent>>
    /\ UNCHANGED serverVars
    /\ UNCHANGED clientVars

\* the client worker pops the next message of its queue
ClientPop ==
    /\ attached["c"] = "Client"
    /\ WorkerPop("c")
    /\ UNCHANGED <<attached, testVars, registryVars, stdioVars, coVars, par, rawSent>>
    /\ UNCHANGED serverVars
    /\ UNCHANGED clientVars

\* the client worker sees running_ false and returns
ClientWorkerExit ==
    /\ attached["c"] = "Client"
    /\ WorkerExit("c")
    /\ UNCHANGED <<attached, testVars, registryVars, stdioVars, coVars, par, rawSent>>
    /\ UNCHANGED serverVars
    /\ UNCHANGED clientVars

\* variant: a response is delivered to its sink but the entry is kept
Matching_kept(out, msg) ==
    [hit |-> msg.id \in out, out |-> out]

\* endpoint receive of a response: the entry with that id, if any, is looked up
\* and dropped; hit says whether a sink is to be called
Matching(out, msg) ==
    [hit |-> msg.id \in out, out |-> out \ {msg.id}]

\* the client worker delivers a response: Client's on_message -> endpoint
\* receive -> success or error sink.  The success sink of initialize stores the
\* server info and sets initialized_; it goes on in ClientInitNotify.
ClientDeliver ==
    /\ attached["c"] = "Client"
    /\ wpc["c"] = "deliver"
    /\ is_response(wcur["c"])
    /\ LET msg == wcur["c"]
           mt == Matching(outstanding, msg)
           toNotify == mt.hit /\ msg.t = "result" /\ reqMethod[msg.id] = "initialize"
       IN /\ outstanding' = mt.out
          /\ unmatched' = IF mt.hit THEN unmatched ELSE unmatched + 1
          /\ succFired' = IF mt.hit /\ msg.t = "result"
                            THEN [succFired EXCEPT ![msg.id] = @ + 1] ELSE succFired
          /\ errFired' = IF mt.hit /\ msg.t = "error"
                            THEN [errFired EXCEPT ![msg.id] = @ + 1] ELSE errFired
          /\ cliInit' = IF toNotify THEN TRUE ELSE cliInit
          /\ wpc' = [wpc EXCEPT !["c"] = IF toNotify THEN "notify" ELSE "wait"]
          /\ wcur' = [wcur EXCEPT !["c"] = IF toNotify THEN msg ELSE NoMsg]
    /\ UNCHANGED <<running, queue, ctl, attached, testVars, registryVars, stdioVars, coVars, par, rawSent, nextId, reqMethod,
                   wire, lastCall, accepted, closedPending>>
    /\ UNCHANGED serverVars

\* the rest of the success sink of initialize: send notifications/initialized,
\* then call on_success
ClientInitNotify ==
    /\ attached["c"] = "Client"
    /\ wpc["c"] = "notify"
    /\ wire' = Append(wire, "notifications/initialized")
    /\ queue' = SendQueue(queue, running, "c",
                          make_notification("notifications/initialized", 0))
    /\ wpc' = [wpc EXCEPT !["c"] = "wait"]
    /\ wcur' = [wcur EXCEPT !["c"] = NoMsg]
    /\ UNCHANGED <<running, ctl, attached, testVars, registryVars, stdioVars, coVars, par, rawSent, cliInit, nextId,
                   outstanding, reqMethod, succFired, errFired, lastCall,
                   accepted, unmatched, closedPending>>
    /\ UNCHANGED serverVars

\* Client::close() on a running transport, up to the join of the worker
ClientCloseBegin ==
    /\ attached["c"] = "Client"
    /\ CloseBegin("c")
    /\ UNCHANGED <<attached, testVars, registryVars, stdioVars, coVars, par, rawSent>>
    /\ UNCHANGED serverVars
    /\ UNCHANGED clientVars

\* Client::close(), after the join: emit_close runs the on_close sink, which
\* clears initialized_, and close() clears it again; nothing touches the
\* endpoint's outstanding table
ClientCloseJoin ==
    /\ attached["c"] = "Client"
    /\ CloseJoin("c")
    /\ cliInit' = FALSE
    /\ closedPending' = outstanding \cap accepted
    /\ UNCHANGED <<attached, testVars, registryVars, stdioVars, coVars, par, rawSent, nextId, outstanding, reqMethod,
                   succFired, errFired, wire, lastCall, accepted, unmatched>>
    /\ UNCHANGED serverVars

\* Client::close() on a transport that is not running
ClientCloseStopped ==
    /\ attached["c"] = "Client"
    /\ ctl["c"] = "idle"
    /\ ~running["c"]
    /\ cliInit' = FALSE
    /\ closedPending' = outstanding \cap accepted
    /\ UNCHANGED transportVars
    /\ UNCHANGED <<attached, testVars, registryVars, stdioVars, coVars, par, rawSent, nextId, outstanding, reqMethod,
                   succFired, errFired, wire, lastCall, accepted, unmatched>>
    /\ UNCHANGED serverVars

\* the peer of the Client: a test that answers with server_transport->send,
\* a result or an error for the id of a request the Client has made
PeerRespond(max) ==
    /\ attached["s"] = "test"
    /\ running["s"]
    /\ rawSent < max
    /\ \E id \in 1..(nextId - 1) :
         \E msg \in {make_result(id, 0), make_error(id, invalid_request)} :
            queue' = SendQueue(queue, running, "s", msg)
    /\ rawSent' = rawSent + 1
    /\ UNCHANGED <<running, wpc, wcur, ctl, attached, testVars, registryVars, stdioVars, coVars, par>>
    /\ UNCHANGED serverVars
    /\ UNCHANGED clientVars

\* a Client on the "c" transport, a test holding the "s" transport
InitClient ==
    /\ InitCommon
    /\ attached = [c |-> "Client", s |-> "test"]

\* everything around the wrapper calls and the peer's responses: the
\* application's other calls, the client worker and the test's transport
ClientSteps ==
    \/ ClientStart
    \/ ClientInitialize
    \/ ClientPop
    \/ ClientDeliver
    \/ ClientInitNotify
    \/ ClientWorkerExit
    \/ ClientCloseBegin
    \/ ClientCloseJoin
    \/ ClientCloseStopped
    \/ PeerStart("s")
    \/ PeerConsume("s")

\* an application that calls call_tool only
NextClient ==
    \/ ClientSteps
    \/ ClientWrapper({"call_tool"})
    \/ PeerRespond(MaxPeerResp)

SpecClient == InitClient /\ [][NextClient]_vars

\* an application that calls any of the six wrappers
NextWrappers ==
    \/ ClientSteps
    \/ ClientWrapper(Wrappers)
    \/ PeerRespond(MaxHandshakeResp)

SpecWrappers == InitClient /\ [][NextWrappers]_vars

----------------------------------------------------------------------------
(* Cancellation on the caller side of the endpoint's send_request *)

\* variant: the cancelled entry stays in the outstanding table
CancelEntry_kept(out, id) == out

\* the outstanding table after the caller cancelled the request with that id
CancelEntry(out, id) == out \ {id}

\* the caller cancels the pending request id: the entry is removed, the
\* waiter is failed with "cancelled", $/cancelRequest {id} is emitted
ClientCancel ==
    /\ attached["c"] = "Client"
    /\ ctl["c"] = "idle"
    /\ \E id \in outstanding :
         /\ outstanding' = CancelEntry(outstanding, id)
         /\ lastCall' = [w |-> "cancel", initAtEntry |-> cliInit, err |-> "cancelled",
                         errCalls |-> 1, succCalls |-> 0, sent |-> TRUE, id |-> id]
         /\ wire' = Append(wire, "$/cancelRequest")
         /\ queue' = SendQueue(queue, running, "c",
                               make_notification("$/cancelRequest", id))
    /\ UNCHANGED <<running, wpc, wcur, ctl, attached, testVars, registryVars, stdioVars, coVars, par, rawSent, cliInit,
                   nextId, reqMethod, succFired, errFired, accepted, unmatched,
                   closedPending>>
    /\ UNCHANGED serverVars

\* an application that initializes, calls call_tool and cancels pending
\* requests, with a peer that answers
NextCancel ==
    \/ ClientStart
    \/ ClientInitialize
    \/ ClientPop
    \/ ClientDeliver
    \/ ClientInitNotify
    \/ PeerStart("s")
    \/ PeerConsume("s")
    \/ ClientWrapper({"call_tool"})
    \/ ClientCancel
    \/ PeerRespond(MaxPeerResp)

SpecCancel == InitClient /\ [][NextCancel]_vars

----------------------------------------------------------------------------
(* AsyncClient::execute_parallel_async, run by an application thread: par    *)
(* holds its position, the futures it created (the id of the request behind  *)
(* each, 0 for a call that was refused), how many it has taken, its outcome, *)
(* the values it has collected (the value of a future is the content of the  *)
(* response to its request, written as that request's id), and whether it    *)
(* ever waited for a future while a later one was ready.                     *)

\* the promise behind a future has a value or an exception
Ready(f) == IF f = 0 THEN TRUE ELSE succFired[f] + errFired[f] > 0
\* future.get() throws
Failed(f) == IF f = 0 THEN TRUE ELSE errFired[f] > 0

\* variant: collecting goes on past a failed future and fails at the end
ParCollect_all(p, f) ==
    IF p.got + 1 < Len(p.futures)
      THEN [p EXCEPT !.got = @ + 1, !.pc = "collect",
                     !.results = IF Failed(f) THEN @ ELSE Append(@, f),
                     !.result = IF Failed(f) THEN "failure" ELSE @]
      ELSE [p EXCEPT !.got = @ + 1, !.pc = "returned",
                     !.results = IF Failed(f) THEN @ ELSE Append(@, f),
                     !.result = IF Failed(f) \/ p.result = "failure"
                                  THEN "failure" ELSE "results"]

\* variant: each collected value is put in front of the earlier ones
ParCollect_front(p, f) ==
    IF Failed(f)
      THEN [p EXCEPT !.got = @ + 1, !.pc = "returned", !.result = "failure"]
      ELSE IF p.got + 1 < Len(p.futures)
        THEN [p EXCEPT !.got = @ + 1, !.pc = "collect", !.results = <<f>> \o @]
        ELSE [p EXCEPT !.got = @ + 1, !.pc = "returned", !.result = "results",
                       !.results = <<f>> \o @]

\* one turn of the collecting loop, future f being ready: get() returns the
\* value, and after the last one the results are returned, or get() throws
\* and the coroutine ends with that failure
ParCollect(p, f) ==
    IF Failed(f)
      THEN [p EXCEPT !.got = @ + 1, !.pc = "returned", !.result = "failure"]
      ELSE IF p.got + 1 < Len(p.futures)
        THEN [p EXCEPT !.got = @ + 1, !.pc = "collect", !.results = Append(@, f)]
        ELSE [p EXCEPT !.got = @ + 1, !.pc = "returned", !.result = "results",
                       !.results = Append(@, f)]

\* one turn of the launching loop: a promise and its future are created and
\* client_.call_tool is called; a refused call has set the exception already
ParIssue ==
    /\ attached["c"] = "Client"
    /\ ctl["c"] = "idle"
    /\ par.pc \in {"idle", "launch"}
    /\ Len(par.futures) < ParCalls
    /\ LET r == call_tool(cliInit)
           f == IF r.method = "" THEN 0 ELSE nextId
       IN /\ IF r.method = ""
               THEN UNCHANGED <<nextId, outstanding, reqMethod, wire, accepted, queue>>
               ELSE SendRequestWithin(r.method, MaxParId)
          /\ par' = [par EXCEPT !.futures = Append(@, f),
                                !.pc = IF Len(par.futures) + 1 = ParCalls
                                         THEN "collect" ELSE "launch"]
    /\ UNCHANGED <<running, wpc, wcur, ctl, attached, testVars, registryVars, stdioVars, coVars, rawSent, cliInit,
                   succFired, errFired, lastCall, unmatched, closedPending>>
    /\ UNCHANGED serverVars

\* a future after the next one to be taken is ready
LaterReady(p) ==
    \E j \in (p.got + 2)..Len(p.futures) : Ready(p.futures[j])

\* future.get() on the next future finds its promise not set and waits
ParGetBlocks ==
    /\ par.pc = "collect"
    /\ ~Ready(par.futures[par.got + 1])
    /\ par' = [par EXCEPT !.pc = "blocked",
                          !.overtaken = @ \/ LaterReady(par)]
    /\ UNCHANGED <<attached, testVars, registryVars, stdioVars, coVars, rawSent>>
    /\ UNCHANGED transportVars
    /\ UNCHANGED serverVars
    /\ UNCHANGED clientVars

\* the worker position after a future.get() has returned or thrown: a task
\* that was driven on the client's worker thread gives the thread back
AfterGet(p) ==
    IF p.pc = "onworker" THEN [wpc EXCEPT !["c"] = "wait"] ELSE wpc

\* future.get() on the next future returns its value
ParGetValue ==
    /\ par.pc \in {"collect", "blocked", "onworker"}
    /\ Ready(par.futures[par.got + 1])
    /\ ~Failed(par.futures[par.got + 1])
    /\ par' = ParCollect(par, par.futures[par.got + 1])
    /\ wpc' = AfterGet(par)
    /\ UNCHANGED <<attached, testVars, registryVars, stdioVars, coVars, rawSent>>
    /\ UNCHANGED <<running, queue, wcur, ctl>>
    /\ UNCHANGED serverVars
    /\ UNCHANGED clientVars

\* future.get() on the next future throws
ParGetFailure ==
    /\ par.pc \in {"collect", "blocked", "onworker"}
    /\ Failed(par.futures[par.got + 1])
    /\ par' = ParCollect(par, par.futures[par.got + 1])
    /\ wpc' = AfterGet(par)
    /\ UNCHANGED <<attached, testVars, registryVars, stdioVars, coVars, rawSent>>
    /\ UNCHANGED <<running, queue, wcur, ctl>>
    /\ UNCHANGED serverVars
    /\ UNCHANGED clientVars

\* an application that initializes and runs the fan-out helper once
NextParallel ==
    \/ ClientSteps
    \/ ParIssue
    \/ ParGetBlocks
    \/ ParGetValue
    \/ ParGetFailure
    \/ PeerRespond(MaxPeerResp)

SpecParallel == InitClient /\ [][NextParallel]_vars

\* an application that starts the client, initializes it and runs the fan-out
\* helper, with a peer that may answer every request, in any order (what
\* the peer does with its own queue is left out)
NextFanOut ==
    \/ ClientStart
    \/ ClientInitialize
    \/ ClientPop
    \/ ClientDeliver
    \/ ClientInitNotify
    \/ PeerStart("s")
    \/ ParIssue
    \/ ParGetBlocks
    \/ ParGetValue
    \/ ParGetFailure
    \/ PeerRespond(MaxParId)

SpecFanOut == InitClient /\ [][NextFanOut]_vars

\* the success sink of initialize whose on_success callback drives
\* call_tool_async to completion: the worker thread sends
\* notifications/initialized, then runs the coroutine body, which calls
\* client_.call_tool and then future.get() on the worker thread itself
ClientInitNotifyDrive ==
    /\ attached["c"] = "Client"
    /\ wpc["c"] = "notify"
    /\ par.pc = "idle"
    /\ nextId <= MaxParId
    /\ nextId' = nextId + 1
    /\ outstanding' = outstanding \cup {nextId}
    /\ reqMethod' = [reqMethod EXCEPT ![nextId] = "tools/call"]
    /\ wire' = wire \o <<"notifications/initialized", "tools/call">>
    /\ accepted' = IF running["c"] THEN accepted \cup {nextId} ELSE accepted
    /\ queue' = SendQueue(SendQueue(queue, running, "c",
                                    make_notification("notifications/initialized", 0)),
                          running, "c", make_request(nextId, "tools/call", "", 0))
    /\ par' = [par EXCEPT !.futures = <<nextId>>, !.pc = "onworker"]
    /\ wpc' = [wpc EXCEPT !["c"] = "get"]
    /\ wcur' = [wcur EXCEPT !["c"] = NoMsg]
    /\ UNCHANGED <<running, ctl, attached, testVars, registryVars, stdioVars, coVars, rawSent,
                   cliInit, succFired, errFired, lastCall, unmatched, closedPending>>
    /\ UNCHANGED serverVars

\* the fan-out application, and callbacks that drive a task on the worker
NextAwait ==
    \/ NextFanOut
    \/ ClientInitNotifyDrive

SpecAwait == InitClient /\ [][NextAwait]_vars

----------------------------------------------------------------------------
(* Claims about the Server *)

\* C1: a request for one of the six gated MCP methods that is handled while
\* initialized_ is false is answered with error -32600 and invokes no
\* registered tool, prompt or resource handler.
C1_NotInitializedGate ==
    (/\ handled.t = "request"
     /\ handled.m \in GatedMethods
     /\ ~handled.initAtEntry)
    => /\ handled.code = invalid_request
       /\ handled.ran = ""
       /\ handled.replies = <<make_error(handled.id, invalid_request)>>

\* a gated request refused after an earlier initialize and a close
C1_Witness ==
    /\ handled.t = "request"
    /\ handled.m = "resources/read"
    /\ handled.initAtEntry = FALSE
    /\ handled.code = invalid_request
    /\ srvCaps # 0

\* the step in which the server worker handles an initialize request
HandlesInitializeRequest ==
    /\ wpc["s"] = "deliver"
    /\ is_request(wcur["s"])
    /\ wcur["s"].m = "initialize"
    /\ wpc'["s"] = "wait"

\* C2: an initialize request handled while the server is already initialized is
\* answered with error -32600 and leaves initialized_ and the stored client
\* capabilities as they were.
C2_SecondInitializeRefused ==
    [][(HandlesInitializeRequest /\ srvInit)
        => /\ handled'.replies = <<make_error(wcur["s"].id, invalid_request)>>
           /\ srvInit'
           /\ srvCaps' = srvCaps]_vars

\* a second initialize, carrying other capabilities than the stored ones, was refused
C2_Witness ==
    /\ handled.t = "request"
    /\ handled.m = "initialize"
    /\ handled.initAtEntry
    /\ handled.code = invalid_request
    /\ srvInit
    /\ srvCaps = 1

\* C3: initialized_ goes from true to false only in a step of close (the
\* transport's close or Server::close()); no request or notification handler
\* clears it.
C3_InitializedMonotonic ==
    [][(srvInit /\ ~srvInit') => (ServerCloseJoin \/ ServerCloseStopped)]_vars

\* the server is still initialized after a later request failed in its handler
C3_Witness ==
    /\ srvInit
    /\ handled.phase = "done"
    /\ handled.initAtEntry
    /\ handled.code # 0

\* 1 while the handler of request i has not returned yet
InFlight(i) ==
    IF wpc["s"] \in {"stream", "streamret"} /\ wcur["s"].id = i THEN 1 ELSE 0

\* C6: every request accepted into dispatch gets exactly one response, carrying
\* its id, once its handler has returned; a notification gets none, also when
\* its handler fails or no handler is registered for its method.
C6_OneResponsePerRequest ==
    /\ \A i \in Ids : responded[i] + InFlight(i) = dispatched[i]
    /\ responded[0] = 0
    /\ handled.t = "notification" => handled.replies = <<>>
    /\ (handled.t = "request" /\ handled.phase = "done")
         => /\ Len(handled.replies) = 1
            /\ handled.replies[1].id = handled.id

\* a notification whose handler failed was handled after a request was answered
C6_Witness ==
    /\ handled.t = "notification"
    /\ handled.code = invalid_request
    /\ handled.replies = <<>>
    /\ \E i \in Ids : dispatched[i] = 1 /\ responded[i] = 1

\* C7: a streaming tool call whose adapter saw the cancelled flag is answered
\* with an error response of code -32800.
C7_CancelledStreamIsError ==
    (/\ handled.stream
     /\ handled.phase = "done"
     /\ handled.cancelled)
    => handled.replies = <<make_error(handled.id, request_cancelled)>>

\* C8: a $/cancelRequest sent for a streaming call while its handler still has
\* a checkpoint ahead makes the adapter stop before the generator is exhausted.
C8_CancelReachesRunningHandler ==
    (/\ handled.stream
     /\ handled.phase = "done"
     /\ handled.cancelSent)
    => /\ handled.cancelled
       /\ handled.n < StreamLen

----------------------------------------------------------------------------
(* Claims about the Client *)

\* ids of the requests the Client has made so far
SentIds == 1..(nextId - 1)

\* 1 while the entry of request i is in the outstanding table
Pending(i) == IF i \in outstanding THEN 1 ELSE 0

C5_CloseFailsOutstanding ==
    \A i \in closedPending : errFired[i] = 1 /\ i \notin outstanding

\* C9: a wrapper called while initialized_ is false calls its error callback
\* once with "Client not initialized", never its success callback, and gives
\* nothing to the endpoint or the transport.
C9_WrappersRefuseBeforeInit ==
    [][(ClientWrapper(Wrappers) /\ ~cliInit)
        => /\ lastCall'.err = "Client not initialized"
           /\ lastCall'.errCalls = 1
           /\ lastCall'.succCalls = 0
           /\ ~lastCall'.sent
           /\ UNCHANGED <<queue, wire, nextId, outstanding, accepted,
                          succFired, errFired>>]_vars

\* read_resource was refused after a completed handshake and a close
C9_Witness ==
    /\ lastCall.w = "read_resource"
    /\ ~lastCall.initAtEntry
    /\ lastCall.errCalls = 1
    /\ ~lastCall.sent
    /\ wire = <<"initialize", "notifications/initialized">>
    /\ ~cliInit

\* handshakes completed: initialize requests whose success sink has fired
Handshakes ==
    Cardinality({i \in SentIds : reqMethod[i] = "initialize" /\ succFired[i] >= 1})

\* positions of wire at which notifications/initialized was handed over
NotifiedAt == {k \in 1..Len(wire) : wire[k] = "notifications/initialized"}

\* C10: whenever is_initialized() is true, notifications/initialized of every
\* completed handshake has been handed to the transport, and no wrapper
\* request is on the wire before the first notifications/initialized.
C10_ReadyAfterNotification ==
    /\ cliInit => Cardinality(NotifiedAt) >= Handshakes
    /\ \A k \in 1..Len(wire) :
          wire[k] \in WrapperMethods => \E j \in NotifiedAt : j < k

\* the step in which the client worker delivers an error response to the
\* error sink of an initialize request
InitializeFails ==
    /\ ClientDeliver
    /\ wcur["c"].t = "error"
    /\ wcur["c"].id \in outstanding
    /\ reqMethod[wcur["c"].id] = "initialize"

\* C11: when the initialize request is answered with an error the client is
\* closed: its transport is no longer open and is_initialized() is false.
C11_FailedInitializeCloses ==
    [][InitializeFails => (~running'["c"] /\ ~cliInit')]_vars

----------------------------------------------------------------------------
(* Claims about the InMemoryTransport *)

\* C12: in one start/close cycle of a transport the close sink is invoked at
\* most once, however many threads call close().
C12_CloseFiresOnce ==
    \A side \in Sides : closeFired[side] <= 1

\* C13: start() on a transport that is running changes nothing of the
\* transport: running_ stays true, the one worker stays where it is, and the
\* queue is untouched.
C13_StartIdempotent ==
    [][\A side \in Sides :
          (TStart(side) /\ running[side])
          => (running'[side] /\ UNCHANGED transportVars)]_vars

\* start() was called on the running client-side transport while its worker
\* was delivering a message
C13_Witness ==
    /\ "c" \in startAgain
    /\ running["c"]
    /\ started["c"] = 1
    /\ wpc["c"] = "deliver"

InTransit(side) ==
    delivered[side]
    \o (IF wpc[side] = "deliver" THEN <<wcur[side]>> ELSE <<>>)
    \o queue[side]

\* C15: every message send() accepted is, exactly once, delivered to the
\* peer's sink, being delivered, or still queued: none is duplicated and none
\* is dropped.
C15_ExactlyOnce ==
    \A side \in Sides :
        /\ Len(InTransit(side)) = Len(acceptedLog[side])
        /\ \A i \in 1..Len(acceptedLog[side]) :
              Cardinality({j \in 1..Len(InTransit(side)) :
                              InTransit(side)[j] = acceptedLog[side][i]}) = 1

\* messages of both sender threads were accepted and all were delivered
C15_Witness ==
    /\ Len(delivered["s"]) >= 2
    /\ Len(delivered["s"]) = Len(acceptedLog["s"])
    /\ \E i, j \in 1..Len(delivered["s"]) : delivered["s"][i].m # delivered["s"][j].m

\* C16: send() on a transport that is not running enqueues nothing and
\* reports one error, and every failure send() reports is that the transport
\* is not running.
C16_SendWhenNotRunning ==
    [][\A t \in Threads, side \in Sides :
          TSend(t, side)
          => /\ ~running[side] => /\ queue' = queue
                                  /\ errorCalls'[side] = errorCalls[side] + 1
             /\ SendError(running, expired, side) # "" => ~running[side]]_vars

----------------------------------------------------------------------------
(* Claims about tools/call and handler failures *)

\* the forms of a call request in which the name is missing
MissingNames == {"", NoName, NoParams}

\* a tools/call request the server handled to the end while initialized
HandledToolsCall ==
    /\ handled.t = "request"
    /\ handled.m = "tools/call"
    /\ handled.initAtEntry
    /\ handled.phase = "done"

C18_ToolLookup ==
    (HandledToolsCall /\ handled.name \notin MissingNames)
    => IF handled.name \notin tool_handlers
         THEN /\ handled.code = method_not_found
              /\ handled.ran = ""
              /\ handled.replies = <<make_error(handled.id, method_not_found)>>
         ELSE /\ handled.ran = handled.name
              /\ handled.args = (IF handled.arg = 0 THEN "{}" ELSE "{msg:hello}")
              /\ dispatched[handled.id] = 1
              /\ handled.code = 0
                   => handled.replies
                        = <<make_result(handled.id, HandlerItems(handled.name))>>

\* the echo tool was called with the arguments of the request and answered
C18_Witness ==
    /\ HandledToolsCall
    /\ handled.name = "echo"
    /\ handled.arg = 1
    /\ handled.args = "{msg:hello}"
    /\ handled.replies = <<make_result(handled.id, 1)>>

\* C19: a handler failure is translated once: a protocol error raised by a
\* handler is answered with its own code, any other failure with -32603.
C19_FailureTranslatedOnce ==
    (/\ handled.t = "request"
     /\ handled.phase = "done"
     /\ handled.ran # "")
    => /\ HandlerRaises(handled.ran)
            => handled.replies = <<make_error(handled.id, custom_error)>>
       /\ HandlerThrows(handled.ran)
            => handled.replies = <<make_error(handled.id, internal_error)>>

\* C20: execute_parallel_async returns, with results or with a failure, only
\* after every call_tool it issued has completed with success or error.
C20_ReturnsAfterAllCompleted ==
    par.pc = "returned"
    => \A i \in 1..Len(par.futures) : Ready(par.futures[i])

\* C21: when all calls succeed, execute_parallel_async returns the results in
\* input order: element i is the result of the i-th call, whatever order the
\* responses arrived in.
C21_ResultsInInputOrder ==
    (par.pc = "returned" /\ par.result = "results")
    => /\ Len(par.results) = ParCalls
       /\ \A i \in 1..ParCalls : par.results[i] = par.futures[i]

\* the helper returned all results after having waited for an earlier call
\* while the response to a later one had already arrived
C21_Witness ==
    /\ par.pc = "returned"
    /\ par.result = "results"
    /\ par.overtaken
    /\ \A i \in 1..ParCalls : par.futures[i] # 0

----------------------------------------------------------------------------
(* Claims about notifications, cancellation and contexts *)

IsProgress(msg) == is_notification(msg) /\ msg.m = "notifications/progress"

\* C22: every notifications/progress emitted by the handler of request r is
\* observed by the peer before the response to r.
C22_ProgressBeforeResponse ==
    \A i, j \in 1..Len(delivered["c"]) :
        (/\ is_response(delivered["c"][i])
         /\ IsProgress(delivered["c"][j])
         /\ delivered["c"][j].arg = delivered["c"][i].id)
        => j < i

\* the peer was given one progress notification per chunk, then the response
C22_Witness ==
    \E i \in 1..Len(delivered["c"]) :
        /\ delivered["c"][i].t = "result"
        /\ Cardinality({j \in 1..(i - 1) :
                           /\ IsProgress(delivered["c"][j])
                           /\ delivered["c"][j].arg = delivered["c"][i].id})
             = StreamLen

\* the non-notification children of the array that was handled
Responding == SelectSeq(handled.items, is_request)

\* C23: an inbound batch yields at most one outbound message: an array with
\* exactly one response per non-notification child, in the inbound order of
\* those children and carrying their ids, and no entry for a notification
\* child; no message at all when every child is a notification.
C23_BatchResponses ==
    (handled.t = "batch" /\ handled.items # <<>>)
    => /\ Len(handled.replies) <= 1
       /\ Responding = <<>> => handled.replies = <<>>
       /\ Responding # <<>>
            => /\ Len(handled.replies) = 1
               /\ is_batch(handled.replies[1])
               /\ Len(handled.replies[1].items) = Len(Responding)
               /\ \A k \in 1..Len(Responding) :
                     /\ is_response(handled.replies[1].items[k])
                     /\ handled.replies[1].items[k].id = Responding[k].id

\* [request, notification, request] was answered with an array of two responses
C23_Witness ==
    /\ handled.t = "batch"
    /\ Len(handled.items) = 3
    /\ is_request(handled.items[1])
    /\ is_notification(handled.items[2])
    /\ is_request(handled.items[3])
    /\ Len(handled.replies) = 1
    /\ Len(handled.replies[1].items) = 2
    /\ handled.replies[1].items[2].t = "result"

\* the step in which the server worker hands the endpoint a $/cancelRequest
DeliversCancel ==
    /\ wpc["s"] = "deliver"
    /\ is_notification(wcur["s"])
    /\ wcur["s"].m = "$/cancelRequest"
    /\ wpc'["s"] = "wait"

\* C24: a $/cancelRequest whose id matches no running inbound request is
\* dropped: no response, no error, no change of state; so is a cancel that
\* arrives after the handler has returned.
C24_UnmatchedCancelDropped ==
    [][(DeliversCancel /\ (ctx.id = 0 \/ ctx.id # wcur["s"].arg))
        => /\ handled'.replies = <<>>
           /\ UNCHANGED <<srvInit, srvCaps, ctx, collected, dispatched,
                          responded, queue, errorCalls>>]_vars

\* a cancel was handled for a streaming call that had already been answered
C24_Witness ==
    /\ handled.t = "notification"
    /\ handled.m = "$/cancelRequest"
    /\ handled.arg \in RawIds
    /\ dispatched[handled.arg] = 1
    /\ responded[handled.arg] = 1
    /\ ctx = NoCtx

\* the step in which the caller cancels the pending request id
Cancels(id) ==
    /\ id \in outstanding
    /\ lastCall'.w = "cancel"
    /\ lastCall'.id = id
    /\ wire' # wire

\* the step in which the client worker hands the endpoint a response whose id
\* is not in the outstanding table
DeliversLate ==
    /\ wpc["c"] = "deliver"
    /\ is_response(wcur["c"])
    /\ wcur["c"].id \notin outstanding
    /\ wpc'["c"] = "wait"

HandlerRuns == wpc["s"] \in {"stream", "streamret"}

----------------------------------------------------------------------------
(* Claims about the registries *)

\* C27: after any sequence of completed register_tool calls, tools/list on an
\* initialized server returns one definition per registered name, that of the
\* most recent registration of the name, and tools/call runs the handler of
\* that same registration.
C27_LastRegistrationWins ==
    (handled.t = "request" /\ handled.reg.pc = "idle" /\ handled.initAtEntry)
    => /\ handled.m = "tools/list"
            => /\ handled.code = 0
               /\ handled.tools = handled.reg.last
               /\ handled.n = Cardinality({n \in ToolNames : handled.reg.last[n] # 0})
       /\ (handled.m = "tools/call" /\ handled.reg.last[handled.name] # 0)
            => /\ handled.ran = handled.name
               /\ handled.handlers[handled.name] = handled.reg.last[handled.name]
               /\ handled.handlers[handled.name] = handled.tools[handled.name]

\* "echo" was registered twice after start() and then listed and called
C27_Witness ==
    /\ registering.pc = "idle"
    /\ registering.calls = MaxRegs
    /\ handled.reg = registering
    /\ handled.m = "tools/call"
    /\ handled.name = "echo"
    /\ handled.handlers["echo"] = MaxRegs + 1
    /\ handled.reg.last["fresh"] = 0

\* C28: a dispatch that runs while register_tool is in progress never sees a
\* partially registered tool: every name tools/list returns has a handler,
\* and a tools/call for a name with a registered definition is never
\* answered with method_not_found.
C28_NoPartialRegistration ==
    (handled.t = "request" /\ handled.initAtEntry)
    => /\ handled.m = "tools/list"
            => \A n \in ToolNames : handled.tools[n] # 0 => handled.handlers[n] # 0
       /\ (handled.m = "tools/call" /\ handled.name \in ToolNames)
            => (handled.tools[handled.name] # 0 => handled.code # method_not_found)

----------------------------------------------------------------------------
(* Claims about closing the Client and about the line transport *)

\* C29: when Client::close() returns initialized_ is false, and it becomes true
\* again only through the success of an initialize request issued after that
\* close, never through a request that was already outstanding when close()
\* returned.
C29_CloseResetsInitialization ==
    [][/\ (ClientCloseJoin \/ ClientCloseStopped) => ~cliInit'
       /\ (~cliInit /\ cliInit') => wcur["c"].id \notin closedPending]_vars

\* what the on_message sink must have been given for the lines read: the
\* parsed value of each line that is JSON, in input order
RECURSIVE ParsedOf(_)
ParsedOf(lines) ==
    IF lines = <<>> THEN <<>>
    ELSE IF IsJson(Head(lines)) THEN <<parse(Head(lines))>> \o ParsedOf(Tail(lines))
    ELSE ParsedOf(Tail(lines))

Malformed(line) == line # "" /\ ~IsJson(line)

\* C30: a line that is not JSON gives one on_error call and no on_message
\* call, an empty line gives neither, and after either the reader is still in
\* its loop: the lines that are JSON, later ones included, are all delivered,
\* in input order.
C30_MalformedLineIsSoft ==
    stdio.pc # "line"
    => /\ stdio.delivered = ParsedOf(stdio.consumed)
       /\ stdio.errors = Len(SelectSeq(stdio.consumed, Malformed))
       /\ (stdio.pc = "exited" /\ ~stdio.eof) => stdio.closer # "idle"

\* a malformed line and an empty line were read, then two objects were
\* delivered, in the order they were written
C30_Witness ==
    /\ stdio.pc = "check"
    /\ stdio.consumed = <<"{\"id\":1", "", "{\"id\":2}", "{\"id\":1}">>
    /\ stdio.delivered = <<[id |-> 2], [id |-> 1]>>
    /\ stdio.errors = 1

\* C31: end of input fires on_close exactly once, and whenever close() or the
\* destructor has returned, the reader thread, if one was started, has been
\* joined, also when it had already finished at end of input.
C31_ReaderJoinedAfterClose ==
    /\ (stdio.pc = "exited" /\ stdio.closer = "idle") => stdio.closes = 1
    /\ stdio.closer # "unjoined"

----------------------------------------------------------------------------
(* Claims about the asynchronous client and the transports' threads *)

\* the response to the request the worker-driven task waits for has arrived
\* at the client's transport
AwaitedResponseArrived ==
    /\ par.pc = "onworker"
    /\ \E i \in 1..Len(queue["c"]) :
         is_response(queue["c"][i]) /\ queue["c"][i].id = par.futures[1]

\* C32: a task driven from the transport's own delivery thread does not
\* block that thread while its response is pending: once the response has
\* arrived the worker can take it from the queue, so the task completes.
C32_AwaitDoesNotBlockDelivery ==
    (running["c"] /\ AwaitedResponseArrived) => ENABLED ClientPop

\* C33: InMemoryTransport::close() always terminates: whatever the worker was
\* doing when close() was called, while close() waits in join() either the
\* worker can take a step towards leaving its loop or the join can return.
C33_CloseTerminates ==
    thr["t1"].pc = "join" => ENABLED (WorkerSteps("c") \/ TCloseJoin("t1"))

\* everything the Server has sent to the peer so far, in order: what the
\* peer's sink was given, then what is still in the peer's queue
SentToPeer == delivered["c"] \o queue["c"]

\* the responses among msgs carry ascending ids; the raw peer numbers its
\* requests in the order it sends them
InArrivalOrder(msgs) ==
    \A i, j \in 1..Len(msgs) :
        (is_response(msgs[i]) /\ is_response(msgs[j]) /\ i < j) => msgs[i].id < msgs[j].id

\* C34: inbound delivery on the Server's transport is serial: the worker
\* takes the next message only when the previous callback, with the handler
\* it ran and the response it sent, has returned, so at most one handler
\* runs at a time and responses leave in the order the requests arrived.
C34_SerialDelivery ==
    [][/\ (wcur'["s"] # NoMsg /\ wcur'["s"] # wcur["s"])
            => (wpc["s"] = "wait" /\ wcur["s"] = NoMsg /\ ctx = NoCtx)
       /\ InArrivalOrder(SentToPeer')]_vars

\* a second request arrived while the streaming handler of the first ran;
\* both were answered and the peer was given the responses
C34_Witness ==
    /\ Len(SelectSeq(delivered["c"], is_response)) >= 2
    /\ \E j \in 1..Len(delivered["c"]) : IsProgress(delivered["c"][j])
    /\ handled.stream
    /\ handled.phase = "done"

\* a call of close() on that transport has returned since it was last started
CloseReturned(side) ==
    \/ closeFired[side] >= 1
    \/ \E t \in Threads : thr[t] = CloseHasReturned(side)

\* C35: once close() has returned on an InMemoryTransport or a StdioTransport
\* the on_message sink is not invoked until start() is called again, and in
\* one start/close cycle on_close comes after the last on_message.
C35_NoDeliveryAfterClose ==
    [][/\ \A side \in Sides :
             delivered'[side] # delivered[side] => ~CloseReturned(side)
       /\ stdio'.delivered # stdio.delivered
             => (stdio.closes = 0 /\ stdio.closer \notin {"closed", "unjoined"})]_vars

\* C36: a message sent to a transport that is not running is put on its
\* queue; no step of close() touches the queue; and what was accepted is at
\* every moment what was delivered, is being delivered and is queued, in the
\* order of the sends, also across a close() and the next start().
C36_RetainedAcrossRestart ==
    [][/\ (acceptedLog'["c"] # acceptedLog["c"] /\ ~running["c"])
            => queue'["c"] = Append(queue["c"],
                                    acceptedLog'["c"][Len(acceptedLog'["c"])])
       /\ thr' # thr => queue'["c"] = queue["c"]
       /\ InTransit("c")' = acceptedLog'["c"]]_vars

\* in its second cycle the transport has delivered a message sent while it
\* was not running, after an earlier message and ahead of one sent later
C36_Witness ==
    /\ started["c"] = 2
    /\ running["c"]
    /\ Len(delivered["c"]) = 3
    /\ delivered["c"] = acceptedLog["c"]
    /\ delivered["c"][1].m = "t2"
    /\ delivered["c"][2].m = "t1"
    /\ delivered["c"][3].m = "t2"

----------------------------------------------------------------------------
(* Claims about the coroutine types *)

\* C37: what the adapter has collected is at every moment a prefix of the
\* generator's stream, in order; it returns the whole stream when the
\* cancelled flag was never set; once the flag is set at most one further
\* item is pulled from the generator; and with a request context it has
\* reported progress once per collected item when it returns.
C37_AdapterCollectsPrefix ==
    LET k == Len(adapter.results)
    IN /\ k <= Len(adapter.items)
       /\ adapter.results = SubSeq(adapter.items, 1, k)
       /\ (adapter.pc = "returned" /\ ~adapter.cancelled) => k = Len(adapter.items)
       /\ adapter.cancelled => adapter.pos <= adapter.pulledAtCancel + 1
       /\ adapter.pc = "returned"
            => adapter.progress = (IF adapter.hasCtx THEN k ELSE 0)

\* the adapter returned a proper prefix of two items, the second of them
\* pulled after the flag was set, with one progress report for each
C37_Witness ==
    /\ adapter.pc = "returned"
    /\ adapter.cancelled
    /\ Len(adapter.results) = 2
    /\ Len(adapter.items) = 3
    /\ adapter.pulledAtCancel = 1
    /\ adapter.progress = 2

\* the live objects that hold the handle of frame f
Owners(f) ==
    {o \in Objects : co.obj[o].life = "alive" /\ co.obj[o].handle = f}

\* C39: a coroutine frame has exactly one owner until it is destroyed, none
\* afterwards, and destroy() is called on it at most once, also after a Task
\* or a Generator was move-constructed from another.
C39_FrameHasOneOwner ==
    \A f \in 1..co.made :
        /\ co.frame[f] <= 1
        /\ Cardinality(Owners(f)) = (IF co.frame[f] = 0 THEN 1 ELSE 0)

\* a step of the reader thread or of the join in close(): what a close()
\* that is in progress can still do when no further input arrives
StdioCloseProgress ==
    StdioCheck \/ StdioGetline \/ StdioLine \/ StdioJoin

\* C38: close() of a running StdioTransport returns whether or not further
\* input arrives: while close() is in its join, the reader or the join has
\* a step to take without any input being written and without end of file.
C38_StdioCloseReturns ==
    stdio.closer = "joining" => ENABLED StdioCloseProgress

====
